---- MODULE Spec2Model ----
(***************************************************************************)
(* A model of py_smart_test: the dependency graph builder with its AST     *)
(* parse cache, the fingerprint store and staleness detector, the          *)
(* test-to-module mapper, the affected-set resolver and the runner that    *)
(* orchestrates them.                                                      *)
(*                                                                         *)
(* Representation.  A path is the sequence of its components               *)
(* (<<"src","pkg","m.py">> is src/pkg/m.py, relative to REPO_ROOT).  A     *)
(* dotted module name is the sequence of its dot-separated components      *)
(* (<<"pkg","m">> is "pkg.m").  The layout is the default one of           *)
(* _paths.py: SRC_ROOT = REPO_ROOT/src, TEST_ROOT = REPO_ROOT/tests.       *)
(***************************************************************************)
EXTENDS Integers, Sequences, FiniteSets, TLC

VARIABLES
    fs,         \* the working tree: path -> content of the file, or Absent
    astCache,   \* CacheManager._ast_parse_cache ("cache"): path -> entry or NoEntry
    graphFile,  \* .py_smart_test/dependency_graph.json
    hashFile,   \* .py_smart_test/file_hashes.json
    ret,        \* the call that has just returned: its inputs and its result
    nChanges    \* number of working-tree changes so far (bounds the run)

vars == <<fs, astCache, graphFile, hashFile, ret, nChanges>>

-----------------------------------------------------------------------------
(* Bounds of the model.                                                    *)

\* longest changed-file list handed to get_affected_tests
MaxChanged == 2

\* number of working-tree changes (edit, add, delete) in one run
MaxChanges == 1

-----------------------------------------------------------------------------
(* Strings.  Python compares str values character by character; on the     *)
(* component strings of this model that order is CompOrder.  Comparing     *)
(* dotted names and posix paths component by component agrees with the     *)
(* character order because no component used in one position is a proper   *)
(* prefix of another one used in that position.                            *)

CompOrder ==
    << "README.md", "__init__.py", "a", "a.py", "b", "b.py", "docs", "m",
       "m.py", "os", "pkg", "src", "sym", "test_a.py", "test_h.py",
       "test_m.py", "tests" >>

CompRank(c) == CHOOSE i \in 1..Len(CompOrder) : CompOrder[i] = c

RECURSIVE StrLess(_, _)
StrLess(s, t) ==
    IF s = <<>> THEN t # <<>>
    ELSE IF t = <<>> THEN FALSE
    ELSE IF s[1] = t[1] THEN StrLess(Tail(s), Tail(t))
    ELSE CompRank(s[1]) < CompRank(t[1])

\* sorted(list(set(...))): ascending, duplicates removed
RECURSIVE sorted(_)
sorted(S) ==
    IF S = {} THEN <<>>
    ELSE LET m == CHOOSE x \in S : \A y \in S : ~StrLess(y, x)
         IN  <<m>> \o sorted(S \ {m})

Range(s) == { s[i] : i \in 1..Len(s) }

Last(s) == s[Len(s)]

Front(s) == SubSeq(s, 1, Len(s) - 1)

\* name[:-3] on the file names of the model
StripPy(c) ==
    CASE c = "a.py" -> "a"
      [] c = "b.py" -> "b"
      [] c = "m.py" -> "m"
      [] c = "__init__.py" -> "__init__"
      [] c = "test_a.py" -> "test_a"
      [] c = "test_h.py" -> "test_h"
      [] c = "test_m.py" -> "test_m"
      [] c = "README.md" -> "README"

\* str.endswith(".py")
EndsWithPy(c) ==
    c \in {"a.py", "b.py", "m.py", "__init__.py", "test_a.py", "test_h.py", "test_m.py"}

\* "<dir>/" in str_path: a component that a slash follows ends in <dir>; of the
\* components of this model only <dir> itself ends in <dir>
ContainsDir(p, dir) == \E i \in 1..(Len(p) - 1) : p[i] = dir

-----------------------------------------------------------------------------
(* _paths.py                                                               *)

SRC_ROOT == <<"src">>

TEST_ROOT == <<"tests">>

\* Path.relative_to(root) succeeds (it raises ValueError otherwise)
IsUnder(p, root) ==
    /\ Len(p) > Len(root)
    /\ SubSeq(p, 1, Len(root)) = root

-----------------------------------------------------------------------------
(* The working tree.                                                       *)

Absent == [exists |-> FALSE]

SrcPaths ==
    { <<"src", "a.py">>, <<"src", "pkg", "__init__.py">>, <<"src", "pkg", "m.py">> }

TestPaths ==
    { <<"tests", "test_a.py">>, <<"tests", "src", "test_h.py">> }

TreePaths == SrcPaths \cup TestPaths

\* Path.exists()
Exists(tree, p) == p \in DOMAIN tree /\ tree[p].exists

-----------------------------------------------------------------------------
(* generate_dependency_graph.get_module_name                               *)

get_module_name_init_kept(file_path, src_root) ==
    LET parts == SubSeq(file_path, Len(src_root) + 1, Len(file_path))
    IN  Front(parts) \o <<StripPy(Last(parts))>>

get_module_name(file_path, src_root) ==
    LET parts == SubSeq(file_path, Len(src_root) + 1, Len(file_path))
    IN  IF Last(parts) = "__init__.py"
        THEN Front(parts)
        ELSE Front(parts) \o <<StripPy(Last(parts))>>

-----------------------------------------------------------------------------
(* dict.get(key, default) on a JSON object                                 *)

Get(obj, key, default) == IF key \in DOMAIN obj THEN obj[key] ELSE default

NoGraph == [exists |-> FALSE]

\* the empty dict {}
EmptyMap == [x \in {} |-> <<>>]

-----------------------------------------------------------------------------
(* find_affected_modules.get_transitive_dependents                         *)

\* every name the traversal can meet: each is queued at most once, so the
\* while loop pops at most this many times
NamesOf(modules, start) ==
    start \cup DOMAIN modules
          \cup UNION { Range(Get(modules[m], "imported_by", <<>>)) : m \in DOMAIN modules }

\* the mutant: a dependent is queued again although it was visited
RECURSIVE VisitDependentsNoVisited(_, _, _, _)
VisitDependentsNoVisited(dependents, queue, visited, affected) ==
    IF dependents = <<>>
    THEN [queue |-> queue, visited |-> visited, affected |-> affected]
    ELSE VisitDependentsNoVisited(Tail(dependents), Append(queue, Head(dependents)),
                                  visited, affected \cup {Head(dependents)})

\* for dep in dependents: if dep not in visited: ...
RECURSIVE VisitDependents(_, _, _, _)
VisitDependents(dependents, queue, visited, affected) ==
    IF dependents = <<>>
    THEN [queue |-> queue, visited |-> visited, affected |-> affected]
    ELSE LET dep == Head(dependents)
         IN  IF dep \notin visited
             THEN VisitDependents(Tail(dependents), Append(queue, dep),
                                  visited \cup {dep}, affected \cup {dep})
             ELSE VisitDependents(Tail(dependents), queue, visited, affected)

\* while queue: current = queue.pop(0) ...; pops counts the iterations left
\* before the loop is declared not to end
RECURSIVE BfsLoop(_, _, _, _, _)
BfsLoop(modules, queue, visited, affected, pops) ==
    IF queue = <<>> THEN [terminated |-> TRUE, affected |-> affected]
    ELSE IF pops = 0 THEN [terminated |-> FALSE, affected |-> affected]
    ELSE LET current == Head(queue)
             dependents == IF current \in DOMAIN modules
                           THEN Get(modules[current], "imported_by", <<>>)
                           ELSE <<>>
             step == VisitDependents(dependents, Tail(queue), visited, affected)
         IN  BfsLoop(modules, step.queue, step.visited, step.affected, pops - 1)

\* the mutant: only the modules that import a start module are added
get_transitive_dependents_one_level(graph, modules) ==
    [terminated |-> TRUE,
     affected |-> modules \cup UNION { Range(Get(graph.modules[m], "imported_by", <<>>))
                                        : m \in modules \cap DOMAIN graph.modules }]

get_transitive_dependents(graph, modules) ==
    BfsLoop(graph.modules, sorted(modules), modules, modules,
            Cardinality(NamesOf(graph.modules, modules)))

-----------------------------------------------------------------------------
(* find_affected_modules.get_affected_tests, the changed files being those *)
(* get_changed_files returned                                              *)

\* "Deleted file logic": the module name inferred from the path alone, which
\* is none when the path does not start with "src"
DeletedModuleName(file_path) ==
    IF file_path[1] = "src"
    THEN LET rel_parts == Tail(file_path)
         IN  [none |-> FALSE,
              name |-> IF Last(rel_parts) = "__init__.py"
                       THEN Front(rel_parts)
                       ELSE Front(rel_parts) \o <<StripPy(Last(rel_parts))>>]
    ELSE [none |-> TRUE]

\* the body of "for file_path in changed_files", for one file, src_root being
\* _paths.SRC_ROOT and exists telling whether the file is there: the module
\* and the test file it adds
ChangedFileAddsAt(src_root, file_path, exists, valid_modules) ==
    IF ContainsDir(file_path, "src") /\ EndsWithPy(Last(file_path))
    THEN IF exists
         THEN \* get_module_name raises ValueError outside SRC_ROOT; the except
              \* clause of the loop body logs it
              IF IsUnder(file_path, src_root)
                 /\ get_module_name(file_path, src_root) \in valid_modules
              THEN [mods |-> {get_module_name(file_path, src_root)}, tests |-> {}]
              ELSE [mods |-> {}, tests |-> {}]
         ELSE LET inferred == DeletedModuleName(file_path)
              IN  IF ~inferred.none /\ inferred.name \in valid_modules
                  THEN [mods |-> {inferred.name}, tests |-> {}]
                  ELSE [mods |-> {}, tests |-> {}]
    ELSE IF ContainsDir(file_path, "tests") /\ EndsWithPy(Last(file_path))
    THEN [mods |-> {}, tests |-> {file_path}]
    ELSE [mods |-> {}, tests |-> {}]

\* the same under the default layout, over a working tree
ChangedFileAdds(file_path, tree, valid_modules) ==
    ChangedFileAddsAt(SRC_ROOT, file_path, Exists(tree, file_path), valid_modules)

\* the mutant: the loop ends after the first changed file
ChangedFilesLoopFirstFile(changed_files, tree, valid_modules, affected_modules, direct_test_files) ==
    IF changed_files = <<>>
    THEN [mods |-> affected_modules, tests |-> direct_test_files]
    ELSE LET adds == ChangedFileAdds(Head(changed_files), tree, valid_modules)
         IN  [mods |-> affected_modules \cup adds.mods,
              tests |-> direct_test_files \cup adds.tests]

RECURSIVE ChangedFilesLoop(_, _, _, _, _)
ChangedFilesLoop(changed_files, tree, valid_modules, affected_modules, direct_test_files) ==
    IF changed_files = <<>>
    THEN [mods |-> affected_modules, tests |-> direct_test_files]
    ELSE LET adds == ChangedFileAdds(Head(changed_files), tree, valid_modules)
         IN  ChangedFilesLoop(Tail(changed_files), tree, valid_modules,
                              affected_modules \cup adds.mods,
                              direct_test_files \cup adds.tests)

\* the mutant: the tests of the affected modules are not collected
get_affected_tests_direct_only(changed_files, tree, graph) ==
    IF ~graph.exists
    THEN [affected_modules |-> <<>>, tests |-> <<>>, terminated |-> TRUE]
    ELSE LET direct == ChangedFilesLoop(changed_files, tree, DOMAIN graph.modules, {}, {})
             closure == get_transitive_dependents(graph, direct.mods)
         IN  [affected_modules |-> sorted(closure.affected),
              tests |-> sorted(direct.tests),
              terminated |-> closure.terminated]

\* the mutant: the changed test files are kept as a list, in the order and
\* as often as they were reported, ahead of the tests of the modules
get_affected_tests_unsorted(changed_files, tree, graph) ==
    IF ~graph.exists
    THEN [affected_modules |-> <<>>, tests |-> <<>>, terminated |-> TRUE]
    ELSE LET direct == ChangedFilesLoop(changed_files, tree, DOMAIN graph.modules, {}, {})
             closure == get_transitive_dependents(graph, direct.mods)
             listed == SelectSeq(changed_files, LAMBDA f : f \in direct.tests)
             of_modules ==
                 UNION { Range(Get(graph.modules[mod], "tests", <<>>))
                           : mod \in closure.affected \cap DOMAIN graph.modules }
         IN  [affected_modules |-> sorted(closure.affected),
              tests |-> listed \o sorted(of_modules \ direct.tests),
              terminated |-> closure.terminated]

get_affected_tests(changed_files, tree, graph) ==
    IF ~graph.exists
    THEN [affected_modules |-> <<>>, tests |-> <<>>, terminated |-> TRUE]
    ELSE LET direct == ChangedFilesLoop(changed_files, tree, DOMAIN graph.modules, {}, {})
             closure == get_transitive_dependents(graph, direct.mods)
             all_affected_modules == closure.affected
             tests_to_run ==
                 direct.tests \cup
                 UNION { Range(Get(graph.modules[mod], "tests", <<>>))
                           : mod \in all_affected_modules \cap DOMAIN graph.modules }
         IN  [affected_modules |-> sorted(all_affected_modules),
              tests |-> sorted(tests_to_run),
              terminated |-> closure.terminated]

-----------------------------------------------------------------------------
(* Specification SpecAffected: the resolver as a function of the persisted *)
(* graph, the working tree and the changed-file list.                      *)

\* a source file that parses and imports nothing
EmptyFile == [exists |-> TRUE, ok |-> TRUE, stmts |-> {}]

NoCache == [p \in SrcPaths |-> [cached |-> FALSE]]

NoHashes == [exists |-> FALSE]

NoCall == [op |-> "none"]

GraphMods == { <<"a">>, <<"pkg">>, <<"pkg", "m">> }

FileOfMod(m) == CHOOSE p \in SrcPaths : get_module_name(p, SRC_ROOT) = m

\* the module entries of the sample graphs: pkg has no "tests" key, and
\* tests/test_a.py is a test of two modules
SampleEntry(m, importedBy) ==
    LET base == [file |-> FileOfMod(m), imported_by |-> sorted(importedBy)]
    IN  IF m = <<"a">>
        THEN base @@ [tests |-> << <<"tests", "test_a.py">> >>]
        ELSE IF m = <<"pkg", "m">>
        THEN base @@ [tests |-> << <<"tests", "pkg", "test_m.py">>, <<"tests", "test_a.py">> >>]
        ELSE base

\* every imported_by relation on GraphMods, over all three modules or over
\* two of them (an imported_by list may then name a module that is no key),
\* the empty graph, and no graph file
SampleGraphs ==
    { [exists |-> TRUE, modules |-> [m \in keys |-> SampleEntry(m, rel[m])]]
        : keys \in { GraphMods, { <<"a">>, <<"pkg">> }, {} },
          rel \in [GraphMods -> SUBSET GraphMods] }
    \cup {NoGraph}

SampleTrees ==
    { [p \in TreePaths |-> EmptyFile], [p \in TreePaths |-> Absent] }

ChangedPaths == TreePaths \cup { <<"README.md">> }

ChangedLists == UNION { [1..n -> ChangedPaths] : n \in 0..MaxChanged }

StartSets == SUBSET (GraphMods \cup { <<"b">> })

InitAffected ==
    /\ fs \in SampleTrees
    /\ graphFile \in SampleGraphs
    /\ astCache = NoCache
    /\ hashFile = NoHashes
    /\ ret = NoCall
    /\ nChanges = 0

CallGetTransitiveDependents(start) ==
    /\ ret = NoCall
    /\ graphFile.exists
    /\ ret' = [op |-> "get_transitive_dependents", start |-> start,
               result |-> get_transitive_dependents(graphFile, start)]
    /\ UNCHANGED <<fs, astCache, graphFile, hashFile, nChanges>>

CallGetAffectedTests(changed_files) ==
    /\ ret = NoCall
    /\ ret' = [op |-> "get_affected_tests", changed |-> changed_files,
               result |-> get_affected_tests(changed_files, fs, graphFile)]
    /\ UNCHANGED <<fs, astCache, graphFile, hashFile, nChanges>>

NextAffected ==
    \/ \E start \in StartSets : CallGetTransitiveDependents(start)
    \/ \E changed_files \in ChangedLists : CallGetAffectedTests(changed_files)

SpecAffected == InitAffected /\ [][NextAffected]_vars

-----------------------------------------------------------------------------
(* What the claims about the resolver speak of.                            *)

\* the modules that import m, as the graph records them
ImportedBy(graph, m) ==
    IF m \in DOMAIN graph.modules
    THEN Range(Get(graph.modules[m], "imported_by", <<>>))
    ELSE {}

ClosedUnderImportedBy(graph, T) == \A m \in T : ImportedBy(graph, m) \subseteq T

\* the smallest set that contains S and is closed under imported_by: the
\* members common to all closed sets that contain S
SmallestClosed(graph, S) ==
    LET U == NamesOf(graph.modules, S)
    IN  { m \in U : \A T \in SUBSET U :
                       (S \subseteq T /\ ClosedUnderImportedBy(graph, T)) => m \in T }

\* C3: get_transitive_dependents ends, and returns exactly the smallest set
\* that contains the start set and every module listed in the imported_by
\* of one of its members
C3_TransitiveClosure ==
    ret.op = "get_transitive_dependents" =>
        /\ ret.result.terminated
        /\ ret.result.affected = SmallestClosed(graphFile, ret.start)

\* a cycle a -> pkg -> a of imported_by edges is followed from a start set
\* that leaves a third module out
C3_Witness ==
    /\ ret.op = "get_transitive_dependents"
    /\ ret.start = { <<"a">> }
    /\ DOMAIN graphFile.modules = GraphMods
    /\ ImportedBy(graphFile, <<"a">>) = { <<"pkg">> }
    /\ <<"a">> \in ImportedBy(graphFile, <<"pkg">>)
    /\ ret.result.affected = { <<"a">>, <<"pkg">> }

\* the .py files of the changed-file list that lie under the source tree,
\* and those that lie under the tests tree
ChangedSourceFiles(changed_files) ==
    { p \in Range(changed_files) : IsUnder(p, SRC_ROOT) /\ EndsWithPy(Last(p)) }

ChangedTestFiles(changed_files) ==
    { p \in Range(changed_files) : IsUnder(p, TEST_ROOT) /\ EndsWithPy(Last(p)) }

\* the graph modules of the changed source files
ChangedModules(changed_files, graph) ==
    { get_module_name(p, SRC_ROOT) : p \in ChangedSourceFiles(changed_files) }
        \cap DOMAIN graph.modules

TestsOfModules(graph, mods) ==
    UNION { Range(Get(graph.modules[m], "tests", <<>>)) : m \in mods \cap DOMAIN graph.modules }

AffectedCall == ret.op = "get_affected_tests" /\ graphFile.exists

\* the affected_modules half of C4: the returned modules are exactly the
\* closure of the graph modules of the changed source files
AffectedModulesExact ==
    AffectedCall =>
        Range(ret.result.affected_modules) =
            SmallestClosed(graphFile, ChangedModules(ret.changed, graphFile))

\* C4: get_affected_tests returns as affected_modules exactly the closure
\* of the graph modules of the changed source files, and as tests exactly
\* the changed test files together with the tests of every module of that
\* closure
C4_AffectedTestsExact ==
    AffectedCall =>
        LET closure == SmallestClosed(graphFile, ChangedModules(ret.changed, graphFile))
        IN  /\ Range(ret.result.affected_modules) = closure
            /\ Range(ret.result.tests) =
                   ChangedTestFiles(ret.changed) \cup TestsOfModules(graphFile, closure)

\* C9: every changed .py path under the tests tree is in the returned
\* tests, whether or not a module of the graph is mapped to it
C9_ChangedTestFileReruns ==
    AffectedCall => ChangedTestFiles(ret.changed) \subseteq Range(ret.result.tests)

-----------------------------------------------------------------------------
(* generate_dependency_graph.ImportVisitor.  An import statement is        *)
(*   [kind |-> "import", name |-> N]                   import N            *)
(*   [kind |-> "from", level |-> L, module |-> M]      from <L dots>M import ... *)
(* where M = <<>> stands for node.module being None.                       *)

\* str.split("."): the empty string splits into one empty component
Split(name) == IF name = <<>> THEN <<"">> ELSE name

\* ".".join(parts)
Join(parts) == IF parts = <<"">> THEN <<>> ELSE parts

NoneResult == [none |-> TRUE]

\* the mutant: a level equal to the number of components is refused too
resolve_relative_strict(current_module, level, module) ==
    LET parts == Split(current_module)
    IN  IF Len(parts) <= level THEN NoneResult
        ELSE LET base_module == Join(SubSeq(parts, 1, Len(parts) - level))
             IN  IF module # <<>>
                 THEN [none |-> FALSE, name |-> base_module \o module]
                 ELSE [none |-> FALSE, name |-> base_module]

resolve_relative(current_module, level, module) ==
    LET parts == Split(current_module)
    IN  IF Len(parts) < level THEN NoneResult
        ELSE LET \* parts[:-level]; parts[:-0] is the empty list
                 base_parts == IF level = 0 THEN <<>>
                               ELSE SubSeq(parts, 1, Len(parts) - level)
                 base_module == Join(base_parts)
             IN  IF module # <<>>
                 THEN IF base_module # <<>>
                      THEN [none |-> FALSE, name |-> base_module \o module]
                      ELSE [none |-> FALSE, name |-> module]
                 ELSE [none |-> FALSE, name |-> base_module]

\* what visit_Import / visit_ImportFrom add to visitor.imports for one node
VisitNode(current_module, node) ==
    IF node.kind = "import" THEN {node.name}
    ELSE IF node.level = 0
    THEN (IF node.module # <<>> THEN {node.module} ELSE {})
    ELSE LET resolved == resolve_relative(current_module, node.level, node.module)
         IN  IF ~resolved.none /\ resolved.name # <<>> THEN {resolved.name} ELSE {}

\* ImportVisitor(mod_name).visit(tree); visitor.imports
VisitorImports(current_module, content) ==
    UNION { VisitNode(current_module, node) : node \in content.stmts }

-----------------------------------------------------------------------------
(* Resolution of the import candidates against valid_modules               *)
(* (generate_dependency_graph.py, the "Resolve imports" loops)             *)

\* for i in range(len(parts), 0, -1): the first prefix in valid_modules
RECURSIVE PrefixMatch(_, _, _)
PrefixMatch(parts, i, valid_modules) ==
    IF i = 0 THEN {}
    ELSE IF Join(SubSeq(parts, 1, i)) \in valid_modules
    THEN {Join(SubSeq(parts, 1, i))}
    ELSE PrefixMatch(parts, i - 1, valid_modules)

\* the mutant: only exact matches are kept
ResolveImportExactOnly(imp, valid_modules) ==
    IF imp \in valid_modules THEN {imp} ELSE {}

ResolveImport(imp, valid_modules) ==
    IF imp \in valid_modules THEN {imp}
    ELSE PrefixMatch(Split(imp), Len(Split(imp)), valid_modules)

\* sorted(list(set(resolved_imports)))
ResolveImports(imports, valid_modules) ==
    sorted(UNION { ResolveImport(imp, valid_modules) : imp \in imports })

\* ast.parse, the visitor and the resolution, for a file that parses
ParseAndResolve(mod_name, content, valid_modules) ==
    ResolveImports(VisitorImports(mod_name, content), valid_modules)

-----------------------------------------------------------------------------
(* file_hash_manager.compute_file_hash: the MD5 digest of the file's       *)
(* bytes.  Distinct contents of the model have distinct digests.           *)

compute_file_hash(content) == <<"md5", content>>

-----------------------------------------------------------------------------
(* generate_dependency_graph: the module map.  A Python dict keeps its     *)
(* keys in insertion order: order lists the keys, at holds the values.     *)

EmptyModulesMap == [order |-> <<>>, at |-> EmptyMap]

\* modules_map[mod_name] = data
Put(modules_map, mod_name, data) ==
    IF mod_name \in DOMAIN modules_map.at
    THEN [order |-> modules_map.order,
          at |-> [modules_map.at EXCEPT ![mod_name] = data]]
    ELSE [order |-> Append(modules_map.order, mod_name),
          at |-> [m \in DOMAIN modules_map.at \cup {mod_name} |->
                     IF m = mod_name THEN data ELSE modules_map.at[m]]]

\* src_root.rglob("*.py"), as a list
SourceFiles(tree) == { p \in DOMAIN tree : IsUnder(p, SRC_ROOT) /\ Exists(tree, p) }

\* list(src_root.rglob("*.py")): the files in the order the directory walk
\* yields them, which is any order
all_files(tree) ==
    { files \in [1..Cardinality(SourceFiles(tree)) -> SourceFiles(tree)] :
        Range(files) = SourceFiles(tree) }

\* first pass of scan_and_build_graph: the module universe
ValidModules(tree) == { get_module_name(p, SRC_ROOT) : p \in SourceFiles(tree) }

\* the mutant: the loop over the files ends at the file that does not parse
SyntaxErrorBreak(files) == <<>>

\* except SyntaxError: logger.warning(...); continue -- the files left to do
SyntaxErrorContinue(files) == Tail(files)

\* _parse_files_sequential
RECURSIVE parse_files_sequential(_, _, _, _)
parse_files_sequential(files, tree, valid_modules, modules_map) ==
    IF files = <<>> THEN modules_map
    ELSE LET file_path == Head(files)
             mod_name == get_module_name(file_path, SRC_ROOT)
         IN  IF ~tree[file_path].ok
             THEN parse_files_sequential(SyntaxErrorContinue(files), tree,
                                         valid_modules, modules_map)
             ELSE parse_files_sequential(
                      Tail(files), tree, valid_modules,
                      Put(modules_map, mod_name,
                          [imports |-> ParseAndResolve(mod_name, tree[file_path], valid_modules),
                           file |-> file_path]))

NoEntry == [cached |-> FALSE]

NoneFiles == [none |-> TRUE]

SomeFiles(S) == [none |-> FALSE, files |-> S]

\* the mutant: "None = parse all", as the docstring of the function has it
CacheHitUnlessNone(file_path, mod_name, current_hash, changed_files, cache) ==
    /\ ~changed_files.none
    /\ file_path \notin changed_files.files
    /\ cache[file_path].cached
    /\ cache[file_path].hash = current_hash
    /\ cache[file_path].module_name = mod_name

\* the cache-hit test of _parse_files_incremental for one file
CacheHit(file_path, mod_name, current_hash, changed_files, cache) ==
    /\ changed_files.none \/ file_path \notin changed_files.files
    /\ cache[file_path].cached
    /\ cache[file_path].hash = current_hash
    /\ cache[file_path].module_name = mod_name

\* _parse_files_incremental; st is the state of the loop: the module map,
\* the AST cache, and the files served from the cache and those parsed
RECURSIVE parse_files_incremental(_, _, _, _, _)
parse_files_incremental(files, tree, valid_modules, changed_files, st) ==
    IF files = <<>> THEN st
    ELSE LET file_path == Head(files)
             mod_name == get_module_name(file_path, SRC_ROOT)
             current_hash == compute_file_hash(tree[file_path])
             resolved_imports == ParseAndResolve(mod_name, tree[file_path], valid_modules)
         IN  IF CacheHit(file_path, mod_name, current_hash, changed_files, st.cache)
             THEN parse_files_incremental(
                      Tail(files), tree, valid_modules, changed_files,
                      [st EXCEPT !.modules_map =
                                     Put(@, mod_name, [imports |-> st.cache[file_path].imports,
                                                       file |-> file_path]),
                                 !.hits = @ \cup {file_path}])
             ELSE IF ~tree[file_path].ok
             THEN parse_files_incremental(
                      SyntaxErrorContinue(files), tree, valid_modules, changed_files,
                      [st EXCEPT !.misses = @ \cup {file_path}])
             ELSE parse_files_incremental(
                      Tail(files), tree, valid_modules, changed_files,
                      [st EXCEPT !.modules_map =
                                     Put(@, mod_name, [imports |-> resolved_imports,
                                                       file |-> file_path]),
                                 !.cache[file_path] =
                                     [cached |-> TRUE, hash |-> current_hash,
                                      module_name |-> mod_name,
                                      imports |-> resolved_imports],
                                 !.misses = @ \cup {file_path}])

\* the mutant: a module's own name is never recorded in its imported_by
RECURSIVE InvertImportsNoSelf(_, _, _)
InvertImportsNoSelf(at, mod, deps) ==
    IF deps = <<>> THEN at
    ELSE IF Head(deps) \in DOMAIN at /\ Head(deps) # mod
    THEN InvertImportsNoSelf([at EXCEPT ![Head(deps)].imported_by = Append(@, mod)],
                             mod, Tail(deps))
    ELSE InvertImportsNoSelf(at, mod, Tail(deps))

\* for dep in data["imports"]: if dep in modules_map: ...append(mod)
RECURSIVE InvertImports(_, _, _)
InvertImports(at, mod, deps) ==
    IF deps = <<>> THEN at
    ELSE IF Head(deps) \in DOMAIN at
    THEN InvertImports([at EXCEPT ![Head(deps)].imported_by = Append(@, mod)],
                       mod, Tail(deps))
    ELSE InvertImports(at, mod, Tail(deps))

\* for mod, data in modules_map.items(): ...
RECURSIVE InvertModules(_, _)
InvertModules(at, order) ==
    IF order = <<>> THEN at
    ELSE InvertModules(InvertImports(at, Head(order), at[Head(order)].imports),
                       Tail(order))

\* "Invert graph to populate imported_by"
Invert(modules_map) ==
    InvertModules([m \in DOMAIN modules_map.at |->
                      modules_map.at[m] @@ [imported_by |-> <<>>]],
                  modules_map.order)

\* scan_and_build_graph(SRC_ROOT, changed_files=..., use_cache=...), with no
\* remote cache backend configured and files being what rglob listed: the
\* graph it returns, the AST cache it leaves, and which files it served from
\* the cache or parsed
scan_and_build_graph(tree, files, changed_files, use_cache, cache) ==
    LET valid_modules == ValidModules(tree)
        start == [modules_map |-> EmptyModulesMap, cache |-> cache,
                  hits |-> {}, misses |-> {}]
        done == IF use_cache
                THEN parse_files_incremental(files, tree, valid_modules, changed_files, start)
                ELSE [start EXCEPT !.modules_map =
                         parse_files_sequential(files, tree, valid_modules, EmptyModulesMap)]
    IN  [graph |-> [exists |-> TRUE, modules |-> Invert(done.modules_map)],
         cache |-> done.cache, hits |-> done.hits, misses |-> done.misses]

\* a file whose bytes are not UTF-8: compute_file_hash reads the bytes and
\* succeeds, read_text(encoding="utf-8") raises UnicodeDecodeError
Undecodable == [exists |-> TRUE, ok |-> FALSE, stmts |-> {}, undecodable |-> TRUE]

\* file_path.read_text(encoding="utf-8") raises
ReadTextRaises(content) == content = Undecodable

\* whether the loop of _parse_files_incremental or _parse_files_sequential
\* reaches ast.parse(file_path.read_text(...)) for the file: always with the
\* cache off, on a cache miss with the cache on
ReachesReadText(tree, file_path, changed_files, use_cache, cache) ==
    use_cache =>
        ~CacheHit(file_path, get_module_name(file_path, SRC_ROOT),
                  compute_file_hash(tree[file_path]), changed_files, cache)

\* scan_and_build_graph with the exception of read_text: only SyntaxError
\* is caught around the parse, so the first such file ends the build
scan_and_build_graph_raising(tree, files, changed_files, use_cache, cache) ==
    IF \E i \in 1..Len(files) :
          /\ ReadTextRaises(tree[files[i]])
          /\ ReachesReadText(tree, files[i], changed_files, use_cache, cache)
    THEN [raised |-> TRUE, exc |-> "UnicodeDecodeError"]
    ELSE [raised |-> FALSE]
             @@ scan_and_build_graph(tree, files, changed_files, use_cache, cache)

-----------------------------------------------------------------------------
(* Specification SpecBuild: graph builds interleaved with changes of the   *)
(* source tree, starting with an empty AST cache.                          *)

ImportA == [kind |-> "import", name |-> <<"a">>]

ImportOs == [kind |-> "import", name |-> <<"os">>]

ImportPkgMSym == [kind |-> "import", name |-> <<"pkg", "m", "sym">>]

FromDotM == [kind |-> "from", level |-> 1, module |-> <<"m">>]

\* a file that does not parse
Broken == [exists |-> TRUE, ok |-> FALSE, stmts |-> {}]

\* import a; import os
UsesA == [exists |-> TRUE, ok |-> TRUE, stmts |-> {ImportA, ImportOs}]

\* import pkg.m.sym; from .m import f
UsesM == [exists |-> TRUE, ok |-> TRUE, stmts |-> {ImportPkgMSym, FromDotM}]

\* import a; import pkg.m.sym
UsesBoth == [exists |-> TRUE, ok |-> TRUE, stmts |-> {ImportA, ImportPkgMSym}]

SrcContents == {Broken, EmptyFile, UsesA, UsesM, UsesBoth}

NoTests == [p \in TestPaths |-> Absent]

SourceTrees == { src @@ NoTests : src \in [SrcPaths -> SrcContents \cup {Absent}] }

ChangedFileSets == { NoneFiles, SomeFiles({ <<"src", "a.py">> }) }

\* the trees the builds start from: every file parses
InitialTrees == { t \in SourceTrees : \A p \in SrcPaths : t[p] \in {Absent, UsesA, UsesM} }

InitBuild ==
    /\ fs \in InitialTrees
    /\ astCache = NoCache
    /\ graphFile = NoGraph
    /\ hashFile = NoHashes
    /\ ret = NoCall
    /\ nChanges = 0

ScanAndBuildGraph(changed_files, use_cache) ==
    \E files \in all_files(fs) :
        \E built \in {scan_and_build_graph(fs, files, changed_files, use_cache, astCache)} :
            /\ astCache' = built.cache
            /\ ret' = [op |-> "scan_and_build_graph", files |-> files,
                       changed_files |-> changed_files,
                       use_cache |-> use_cache, graph |-> built.graph,
                       hits |-> built.hits, misses |-> built.misses]
            /\ UNCHANGED <<fs, graphFile, hashFile, nChanges>>

\* a source file is created or rewritten
WriteSource(p, content) ==
    /\ nChanges < MaxChanges
    /\ fs[p] # content
    /\ fs' = [fs EXCEPT ![p] = content]
    /\ ret' = NoCall
    /\ nChanges' = nChanges + 1
    /\ UNCHANGED <<astCache, graphFile, hashFile>>

\* a source file is deleted
DeleteSource(p) ==
    /\ nChanges < MaxChanges
    /\ fs[p].exists
    /\ fs' = [fs EXCEPT ![p] = Absent]
    /\ ret' = NoCall
    /\ nChanges' = nChanges + 1
    /\ UNCHANGED <<astCache, graphFile, hashFile>>

\* changed_files is passed on to _parse_files_incremental only
BuildArgs ==
    { [changed_files |-> cf, use_cache |-> TRUE] : cf \in ChangedFileSets }
        \cup { [changed_files |-> NoneFiles, use_cache |-> FALSE] }

NextBuild ==
    \/ \E args \in BuildArgs : ScanAndBuildGraph(args.changed_files, args.use_cache)
    \/ \E p \in SrcPaths, c \in SrcContents : WriteSource(p, c)
    \/ \E p \in SrcPaths : DeleteSource(p)

SpecBuild == InitBuild /\ [][NextBuild]_vars

-----------------------------------------------------------------------------
(* Specification SpecSeeded: the same builds and changes, starting with an *)
(* AST cache that holds arbitrary entries: right ones, entries whose       *)
(* import list is out of date, unsorted, repeated or names no module.      *)

\* an entry written for "import a; import os" that lists pkg.m
SeedEntryA(p) ==
    [cached |-> TRUE, hash |-> compute_file_hash(UsesA),
     module_name |-> get_module_name(p, SRC_ROOT),
     imports |-> << <<"pkg", "m">> >>]

\* an entry written for "import pkg.m.sym; from .m import f" that lists
\* b, a, a
SeedEntryM(p) ==
    [cached |-> TRUE, hash |-> compute_file_hash(UsesM),
     module_name |-> get_module_name(p, SRC_ROOT),
     imports |-> << <<"b">>, <<"a">>, <<"a">> >>]

SeedCaches == { c \in [SrcPaths -> [cached : {TRUE}, hash : {compute_file_hash(UsesA), compute_file_hash(UsesM)},
                                    module_name : GraphMods,
                                    imports : {<< <<"pkg", "m">> >>, << <<"b">>, <<"a">>, <<"a">> >>}]
                                   ] :
                   \A p \in SrcPaths : c[p] \in {SeedEntryA(p), SeedEntryM(p)} }

SeedTrees ==
    { t \in SourceTrees :
        /\ t[<<"src", "a.py">>] \in {UsesA, UsesM}
        /\ t[<<"src", "pkg", "__init__.py">>] = UsesM
        /\ t[<<"src", "pkg", "m.py">>] = UsesA }

InitSeeded ==
    /\ fs \in SeedTrees
    /\ astCache \in SeedCaches
    /\ graphFile = NoGraph
    /\ hashFile = NoHashes
    /\ ret = NoCall
    /\ nChanges = 0

SpecSeeded == InitSeeded /\ [][NextBuild]_vars

-----------------------------------------------------------------------------
(* What the claims about the builder speak of.                             *)

BuildReturned == ret.op = "scan_and_build_graph"

ImportsOf(graph, m) == Range(graph.modules[m].imports)

\* C1: in every graph scan_and_build_graph returns, with the AST cache on or
\* off and whatever the cache held before, for all keys A and B of the graph:
\* A is in B's imported_by list if and only if B is in A's imports list.
C1_InversionInvariant ==
    BuildReturned =>
        \A A \in DOMAIN ret.graph.modules, B \in DOMAIN ret.graph.modules :
            A \in ImportedBy(ret.graph, B) <=> B \in ImportsOf(ret.graph, A)

\* a build with the cache on that served a file from a seeded entry, in whose
\* graph a imports itself and pkg is imported by a
C1_Witness ==
    /\ BuildReturned
    /\ ret.use_cache
    /\ ret.hits # {}
    /\ DOMAIN ret.graph.modules = GraphMods
    /\ <<"a">> \in ImportsOf(ret.graph, <<"pkg">>)
    /\ <<"pkg">> \in ImportedBy(ret.graph, <<"a">>)
    /\ <<"pkg", "m">> \in ImportedBy(ret.graph, <<"pkg", "m">>)

\* C2: across builds interleaved with edits, additions and deletions of
\* source files, whenever _parse_files_incremental serves a file from its
\* cache entry (stored hash and module name equal to the current ones), the
\* import list it returns is the one a full re-parse and resolution of the
\* file against the current module universe produces.
C2_CacheHitFidelity ==
    (BuildReturned /\ ret.use_cache) =>
        \A p \in ret.hits :
            ret.graph.modules[get_module_name(p, SRC_ROOT)].imports =
                ParseAndResolve(get_module_name(p, SRC_ROOT), fs[p], ValidModules(fs))

\* C10: a syntax error in one source file never aborts scan_and_build_graph:
\* the build returns a graph, and every other source file's module, imports
\* and imported_by are what they would be if the broken file imported
\* nothing (the same build, from the same cache, over the tree in which the
\* broken file is empty, listed in the same order).
C10_SyntaxErrorIsolated ==
    [][ ret'.op = "scan_and_build_graph" =>
          /\ ret'.graph.exists
          /\ \A f \in SourceFiles(fs) :
               ~fs[f].ok =>
                 LET broken == get_module_name(f, SRC_ROOT)
                     hyp == scan_and_build_graph([fs EXCEPT ![f] = EmptyFile],
                                                 ret'.files,
                                                 ret'.changed_files, ret'.use_cache,
                                                 astCache).graph
                     others == DOMAIN hyp.modules \ {broken}
                 IN  /\ DOMAIN ret'.graph.modules \ {broken} = others
                     /\ \A m \in others : ret'.graph.modules[m] = hyp.modules[m] ]_vars

\* a build over a tree whose first file, a.py, does not parse while pkg
\* imports a and pkg.m: pkg and pkg.m are in the graph all the same
C10_Witness ==
    /\ BuildReturned
    /\ fs[<<"src", "a.py">>] = Broken
    /\ DOMAIN ret.graph.modules = {<<"pkg">>, <<"pkg", "m">>}
    /\ ImportsOf(ret.graph, <<"pkg">>) = {<<"a">>}
    /\ ImportsOf(ret.graph, <<"pkg", "m">>) = {<<"pkg", "m">>}

-----------------------------------------------------------------------------
(* file_hash_manager: the fingerprint snapshot.  The hash file is           *)
(* [exists |-> FALSE] or [exists |-> TRUE, files |-> path -> digest].       *)

\* get_all_py_files: src/**/*.py and tests/**/*.py
get_all_py_files(tree) == { p \in TreePaths : Exists(tree, p) }

\* get_current_hashes
get_current_hashes(tree) ==
    [p \in get_all_py_files(tree) |-> compute_file_hash(tree[p])]

\* load_hashes: {} when there is no hash file
load_hashes(hash_file) ==
    IF ~hash_file.exists THEN EmptyMap ELSE hash_file.files

\* save_hashes
save_hashes(hashes) == [exists |-> TRUE, files |-> hashes]

\* update_hashes: the hash file it leaves
update_hashes(tree) == save_hashes(get_current_hashes(tree))

\* the mutant: a file added since the snapshot goes unnoticed
NewOrModifiedIgnoresNew(stored_hashes, current_hashes) ==
    \E path \in DOMAIN current_hashes :
        path \in DOMAIN stored_hashes /\ stored_hashes[path] # current_hashes[path]

\* detect_graph_staleness.is_graph_stale, "1. Check for new or modified files"
NewOrModified(stored_hashes, current_hashes) ==
    \E path \in DOMAIN current_hashes :
        \/ path \notin DOMAIN stored_hashes
        \/ stored_hashes[path] # current_hashes[path]

\* the mutant: a file of the snapshot that is gone is not looked for
DeletedIgnored(stored_hashes, current_hashes) == FALSE

\* detect_graph_staleness.is_graph_stale, "2. Check for deleted files"
Deleted(stored_hashes, current_hashes) ==
    \E path \in DOMAIN stored_hashes : path \notin DOMAIN current_hashes

\* detect_graph_staleness.is_graph_stale
is_graph_stale(graph_file, hash_file, tree) ==
    IF ~graph_file.exists THEN TRUE
    ELSE LET stored_hashes == load_hashes(hash_file)
         IN  IF DOMAIN stored_hashes = {} THEN TRUE
             ELSE LET current_hashes == get_current_hashes(tree)
                  IN  \/ NewOrModified(stored_hashes, current_hashes)
                      \/ Deleted(stored_hashes, current_hashes)

\* generate_dependency_graph.main: the graph file and the AST cache it leaves
generate_main(tree, files, cache) ==
    scan_and_build_graph_raising(tree, files, NoneFiles, TRUE, cache)

-----------------------------------------------------------------------------
(* Specification SpecStale: graph generation, fingerprint saves and         *)
(* staleness queries interleaved with changes of the .py files under src    *)
(* and tests.                                                               *)

FileContents == {EmptyFile, UsesA}

StaleTrees ==
    { t \in [TreePaths -> FileContents \cup {Absent}] :
        \A p \in TreePaths \ {<<"src", "a.py">>, <<"tests", "test_a.py">>} : t[p] = Absent }

InitStale ==
    /\ fs \in StaleTrees
    /\ astCache = NoCache
    /\ graphFile = NoGraph
    /\ hashFile = NoHashes
    /\ ret = NoCall
    /\ nChanges = 0

GenerateGraph ==
    \E files \in all_files(fs) :
        \E built \in {generate_main(fs, files, astCache)} :
            /\ graphFile' = built.graph
            /\ astCache' = built.cache
            /\ ret' = [op |-> "generate_dependency_graph.main"]
            /\ UNCHANGED <<fs, hashFile, nChanges>>

UpdateHashes ==
    /\ hashFile' = update_hashes(fs)
    /\ ret' = [op |-> "update_hashes"]
    /\ UNCHANGED <<fs, astCache, graphFile, nChanges>>

IsGraphStale ==
    /\ ret' = [op |-> "is_graph_stale",
               result |-> is_graph_stale(graphFile, hashFile, fs)]
    /\ UNCHANGED <<fs, astCache, graphFile, hashFile, nChanges>>

\* a .py file under src or tests is created or rewritten
WriteFile(p, content) ==
    /\ nChanges < MaxChanges
    /\ fs[p] # content
    /\ fs' = [fs EXCEPT ![p] = content]
    /\ ret' = [op |-> "change", path |-> p, after |-> ret.op]
    /\ nChanges' = nChanges + 1
    /\ UNCHANGED <<astCache, graphFile, hashFile>>

\* a .py file under src or tests is deleted
DeleteFile(p) ==
    /\ nChanges < MaxChanges
    /\ fs[p].exists
    /\ fs' = [fs EXCEPT ![p] = Absent]
    /\ ret' = [op |-> "change", path |-> p, after |-> ret.op]
    /\ nChanges' = nChanges + 1
    /\ UNCHANGED <<astCache, graphFile, hashFile>>

NextStale ==
    \/ GenerateGraph
    \/ UpdateHashes
    \/ IsGraphStale
    \/ \E p \in TreePaths, c \in FileContents : WriteFile(p, c)
    \/ \E p \in TreePaths : DeleteFile(p)

SpecStale == InitStale /\ [][NextStale]_vars

-----------------------------------------------------------------------------
(* What the claims about staleness speak of.                               *)

\* the two snapshots differ in an added path, a removed path, or a path whose
\* hash differs
SnapshotsDiffer(persisted, current) ==
    \/ \E path \in DOMAIN current \ DOMAIN persisted : TRUE
    \/ \E path \in DOMAIN persisted \ DOMAIN current : TRUE
    \/ \E path \in DOMAIN persisted \cap DOMAIN current :
           persisted[path] # current[path]

StaleReturned == ret.op = "is_graph_stale"

\* C6: when the graph file exists and a snapshot has been persisted (an empty
\* one included), is_graph_stale() returns true if and only if the snapshot
\* computed now differs from the persisted one in an added path, a removed
\* path or a path whose hash differs.
C6_StaleIffSnapshotsDiffer ==
    (StaleReturned /\ graphFile.exists /\ hashFile.exists) =>
        (ret.result <=> SnapshotsDiffer(hashFile.files, get_current_hashes(fs)))

\* the same equivalence for the persisted snapshots that hold a path
StaleIffSnapshotsDifferNonEmpty ==
    (StaleReturned /\ graphFile.exists /\ hashFile.exists /\ DOMAIN hashFile.files # {}) =>
        (ret.result <=> SnapshotsDiffer(hashFile.files, get_current_hashes(fs)))

\* C7: right after the graph was generated and update_hashes() saved the
\* snapshot, with no change of the file system since, is_graph_stale()
\* returns false; and when one .py file under src or tests is then modified,
\* added or deleted, the next is_graph_stale() returns true.
C7_FreshThenStale ==
    [][ (graphFile.exists /\ ret'.op = "is_graph_stale") =>
          /\ ret.op = "update_hashes" => ~ret'.result
          /\ (ret.op = "change" /\ ret.after = "update_hashes") => ret'.result ]_vars

\* the second half of C7 alone
SingleChangeIsStale ==
    [][ (graphFile.exists /\ ret'.op = "is_graph_stale"
            /\ ret.op = "change" /\ ret.after = "update_hashes") => ret'.result ]_vars

\* the first half of C7 for the trees that hold a .py file
FreshWhenTracked ==
    [][ (graphFile.exists /\ ret'.op = "is_graph_stale" /\ ret.op = "update_hashes"
            /\ get_all_py_files(fs) # {}) => ~ret'.result ]_vars

-----------------------------------------------------------------------------
(* test_module_mapper                                                      *)

\* the file names that match the glob test_*.py
IsTestFileName(c) == c \in {"test_a.py", "test_h.py", "test_m.py"}

\* filename[5:-3]
StripTest(c) ==
    CASE c = "test_a.py" -> "a"
      [] c = "test_h.py" -> "h"
      [] c = "test_m.py" -> "m"

\* _paths.PACKAGES: the directories of SRC_ROOT that hold an __init__.py,
\* sorted
PACKAGES(tree) ==
    IF Exists(tree, <<"src", "pkg", "__init__.py">>) THEN << <<"pkg">> >> ELSE <<>>

TestFiles(tree) ==
    { p \in DOMAIN tree : IsUnder(p, TEST_ROOT) /\ Exists(tree, p) /\ IsTestFileName(Last(p)) }

\* test_root.rglob("test_*.py"): the files in any order
test_files(tree) ==
    { files \in [1..Cardinality(TestFiles(tree)) -> TestFiles(tree)] :
        Range(files) = TestFiles(tree) }

\* TEST_ROOT.exists(): a directory is there when a file is under it
TestRootExists(tree) == \E p \in DOMAIN tree : IsUnder(p, TEST_ROOT) /\ Exists(tree, p)

\* the mutant: the search ends at the first match
MatchesFirstOnly(test_file, valid_modules, packages) ==
    LET parts == SubSeq(test_file, Len(TEST_ROOT) + 1, Len(test_file))
        candidate == Front(parts) \o <<StripTest(Last(parts))>>
        prefixed == [i \in 1..Len(packages) |-> packages[i] \o candidate]
        all == (IF candidate \in valid_modules THEN <<candidate>> ELSE <<>>)
                   \o SelectSeq(prefixed, LAMBDA m : m \in valid_modules)
    IN  IF all = <<>> THEN <<>> ELSE <<Head(all)>>

\* the matches of one test file: the candidate itself, then the candidate
\* under each package
Matches(test_file, valid_modules, packages) ==
    LET parts == SubSeq(test_file, Len(TEST_ROOT) + 1, Len(test_file))
        candidate == Front(parts) \o <<StripTest(Last(parts))>>
        prefixed == [i \in 1..Len(packages) |-> packages[i] \o candidate]
    IN  (IF candidate \in valid_modules THEN <<candidate>> ELSE <<>>)
            \o SelectSeq(prefixed, LAMBDA m : m \in valid_modules)

\* for m in matches: mapping.setdefault(m, []).append(test_file_str)
RECURSIVE AddMatches(_, _, _)
AddMatches(mapping, matches, test_file) ==
    IF matches = <<>> THEN mapping
    ELSE AddMatches(Put(mapping, Head(matches),
                        Append(Get(mapping.at, Head(matches), <<>>), test_file)),
                    Tail(matches), test_file)

RECURSIVE MapTestFiles(_, _, _, _)
MapTestFiles(files, valid_modules, packages, mapping) ==
    IF files = <<>> THEN mapping
    ELSE MapTestFiles(Tail(files), valid_modules, packages,
                      AddMatches(mapping, Matches(Head(files), valid_modules, packages),
                                 Head(files)))

\* map_tests_to_modules(TEST_ROOT), files being what rglob listed
map_tests_to_modules(graph_file, files, packages) ==
    IF ~graph_file.exists THEN EmptyModulesMap
    ELSE MapTestFiles(files, DOMAIN graph_file.modules, packages, EmptyModulesMap)

\* for t in tests: test_to_modules.setdefault(t, []).append(mod)
RECURSIVE TestToModules(_, _, _)
TestToModules(test_map, order, test_to_modules) ==
    IF order = <<>> THEN test_to_modules
    ELSE LET mod == Head(order)
             tests == Range(test_map.at[mod])
             keys == DOMAIN test_to_modules \cup tests
         IN  TestToModules(test_map, Tail(order),
                 [t \in keys |->
                     IF t \in tests
                     THEN Append(Get(test_to_modules, t, <<>>), mod)
                     ELSE test_to_modules[t]])

\* test_module_mapper.main: the graph file it leaves
mapper_main(tree, graph_file, files, packages) ==
    IF ~TestRootExists(tree) THEN graph_file
    ELSE IF ~graph_file.exists THEN graph_file
    ELSE LET test_map == map_tests_to_modules(graph_file, files, packages)
         IN  [exists |-> TRUE,
              modules |->
                  [mod_name \in DOMAIN graph_file.modules |->
                      IF mod_name \in DOMAIN test_map.at
                      THEN [tests |-> sorted(Range(test_map.at[mod_name]))]
                               @@ graph_file.modules[mod_name]
                      ELSE graph_file.modules[mod_name]],
              test_map |-> TestToModules(test_map, test_map.order, EmptyMap)]

-----------------------------------------------------------------------------
(* pytest: the exit code of a run over the collected test files.  One item *)
(* stands for each test file.                                              *)

\* the test files pytest collects under the paths it is given
Collected(tree, tests) ==
    { p \in TestFiles(tree) : \E i \in 1..Len(tests) : IsUnder(p, tests[i]) \/ p = tests[i] }

\* 5 when nothing was collected or selected, 1 when a test failed
PytestExit(items, tests_pass) ==
    IF items = {} THEN 5 ELSE IF tests_pass THEN 0 ELSE 1

-----------------------------------------------------------------------------
(* pytest_plugin.pytest_collection_modifyitems.  The selection is a set:   *)
(* the order prioritize_tests gives the items is left out.                 *)

NoQuery == [asked |-> FALSE]

pytest_collection_modifyitems(config, changed_files, wt_files, failed, tree, graph_file) ==
    IF ~config.smart /\ ~config.smart_first
    THEN [query |-> NoQuery, selected |-> TestFiles(tree)]
    ELSE LET result == get_affected_tests(changed_files, tree, graph_file)
             existing == Range(result.tests)
                            \cup (IF config.working_tree
                                  THEN { path \in wt_files :
                                           path[1] = "tests" /\ Len(path) > 1
                                               /\ EndsWithPy(Last(path)) }
                                  ELSE {})
             affected_test_files == existing
             items == TestFiles(tree)
             affected_node_ids == items \cap affected_test_files
         IN  [query |-> [asked |-> TRUE, graph |-> graph_file,
                         tests |-> sorted(existing)],
              selected |-> IF config.smart
                           THEN items \cap (affected_node_ids \cup failed)
                           ELSE items]

-----------------------------------------------------------------------------
(* smart_test_runner                                                       *)

\* ["tests/"]
AllTests == << TEST_ROOT >>

\* the number of parameters of find_affected_modules.get_affected_tests
GetAffectedTestsParams == 2

\* the mutant: get_affected_tests takes the arguments main passes
call_get_affected_tests_any_arity(nargs, changed_files, tree, graph_file) ==
    LET data == get_affected_tests(changed_files, tree, graph_file)
    IN  [raised |-> "none", tests |-> data.tests,
         query |-> [asked |-> TRUE, graph |-> graph_file, tests |-> data.tests]]

\* a call of get_affected_tests with nargs positional arguments
call_get_affected_tests(nargs, changed_files, tree, graph_file) ==
    IF nargs > GetAffectedTestsParams
    THEN [raised |-> "TypeError", query |-> NoQuery]
    ELSE LET data == get_affected_tests(changed_files, tree, graph_file)
         IN  [raised |-> "none", tests |-> data.tests,
              query |-> [asked |-> TRUE, graph |-> graph_file, tests |-> data.tests]]

\* run_pytest: whether pytest was started, and its exit code
run_pytest(tests, tree, tests_pass) ==
    IF tests = <<>> THEN [started |-> FALSE, exit_code |-> 0]
    ELSE [started |-> TRUE, exit_code |-> PytestExit(Collected(tree, tests), tests_pass)]

\* the mutant: the hashes are saved after every run that ran tests
ShouldUpdateHashesAnyRun(tests_ran, dry_run, is_full_run) ==
    tests_ran /\ ~dry_run

\* "if tests_ran and not dry_run and is_full_run"
ShouldUpdateHashes(tests_ran, dry_run, is_full_run) ==
    tests_ran /\ ~dry_run /\ is_full_run

\* the fast path of main: pytest --smart
fast_path(o, env, tree, graph_file, hash_file, cache) ==
    LET hook == pytest_collection_modifyitems(
                    [smart |-> TRUE, smart_first |-> FALSE, working_tree |-> FALSE],
                    env.changed_files, {}, env.failed, tree, graph_file)
        returncode == PytestExit(hook.selected, env.tests_pass)
    IN  [graph_file |-> graph_file, hash_file |-> hash_file, cache |-> cache,
         fast_path |-> TRUE, regenerated |-> FALSE, query |-> hook.query,
         regen_raised |-> "none", tests_to_run |-> <<>>, affected_raised |-> "none",
         pytest_started |-> TRUE, pytest_exit |-> returncode,
         update_hashes_called |-> FALSE, raised |-> "none",
         exit |-> IF returncode = 5 THEN 0 ELSE returncode]

\* "1. Regenerate graph if needed": generate_graph_main(), of which built is
\* the outcome, and mapper_main()
regenerate(built, tree, files) ==
    IF built.raised THEN [raised |-> built.exc]
    ELSE [raised |-> "none",
          graph_file |-> mapper_main(tree, built.graph, files, PACKAGES(tree)),
          cache |-> built.cache]

\* "2. Determine tests to run" and what follows it in main: after is what
\* the regeneration step left, affected_data and json_data are the outcomes
\* of the two calls get_affected_tests(since, staged, coverage)
determine_and_run(o, env, tree, hash_file, regen, regen_raised, after, affected_data, json_data) ==
    LET first_run == ~hash_file.exists
        asks == o.mode = "affected" /\ ~first_run
        no_affected == asks /\ affected_data.raised = "none" /\ affected_data.tests = <<>>
        tests_to_run ==
            IF o.mode = "all" THEN AllTests
            ELSE IF o.mode = "affected"
            THEN IF first_run THEN AllTests
                 ELSE IF affected_data.raised = "none" THEN affected_data.tests
                 ELSE AllTests
            ELSE <<>>
        is_full_run == first_run \/ o.mode = "all"
        ran == run_pytest(tests_to_run, tree, env.tests_pass)
        tests_ran == ran.started /\ ran.exit_code = 0
        base == [graph_file |-> after.graph_file, hash_file |-> hash_file,
                 cache |-> after.cache, fast_path |-> FALSE, regenerated |-> regen,
                 regen_raised |-> regen_raised, tests_to_run |-> tests_to_run,
                 affected_raised |-> IF asks THEN affected_data.raised ELSE "none",
                 query |-> IF asks THEN affected_data.query ELSE NoQuery,
                 pytest_started |-> FALSE, pytest_exit |-> 0,
                 update_hashes_called |-> FALSE, raised |-> "none", exit |-> 0]
    IN  IF no_affected THEN base
        ELSE IF o.json_output
        THEN IF o.mode = "affected"
             THEN \* an exception main does not catch ends the process with 1
                  IF json_data.raised # "none"
                  THEN [base EXCEPT !.raised = json_data.raised, !.exit = 1]
                  ELSE [base EXCEPT !.query = json_data.query]
             ELSE base
        ELSE IF o.dry_run THEN base
        ELSE IF ran.started /\ ran.exit_code # 0
        THEN [base EXCEPT !.pytest_started = TRUE, !.pytest_exit = ran.exit_code,
                          !.exit = ran.exit_code]
        ELSE IF ShouldUpdateHashes(tests_ran, o.dry_run, is_full_run)
        THEN [base EXCEPT !.pytest_started = ran.started, !.pytest_exit = ran.exit_code,
                          !.hash_file = update_hashes(tree),
                          !.update_hashes_called = TRUE]
        ELSE [base EXCEPT !.pytest_started = ran.started, !.pytest_exit = ran.exit_code]

\* what "1. Regenerate graph if needed" leaves: env.regenerated is the
\* outcome of generate_graph_main() and mapper_main() when they run; what
\* they raise is logged ("except Exception as e: logger.error(...)")
after_regeneration(regen, env, graph_file, cache) ==
    IF regen /\ env.regenerated.raised = "none"
    THEN [graph_file |-> env.regenerated.graph_file, cache |-> env.regenerated.cache]
    ELSE [graph_file |-> graph_file, cache |-> cache]

\* the orchestration path of main with the graph and the cache the
\* regeneration step left
orchestrate_after(o, env, tree, hash_file, regen, after) ==
    determine_and_run(o, env, tree, hash_file, regen,
                      IF regen THEN env.regenerated.raised ELSE "none", after,
                      call_get_affected_tests(3, env.changed_files, tree, after.graph_file),
                      call_get_affected_tests(3, env.changed_files, tree, after.graph_file))

\* the full orchestration path of main
orchestrate(o, env, tree, graph_file, hash_file, cache) ==
    LET regen == o.regenerate_graph \/ is_graph_stale(graph_file, hash_file, tree)
    IN  orchestrate_after(o, env, tree, hash_file, regen,
                          after_regeneration(regen, env, graph_file, cache))

\* smart_test_runner.main
main(o, env, tree, graph_file, hash_file, cache) ==
    LET use_fast_path == /\ o.mode = "affected"
                         /\ ~o.json_output
                         /\ ~o.dry_run
                         /\ ~o.regenerate_graph
                         /\ ~o.parallel
                         /\ ~o.coverage
    IN  IF use_fast_path
        THEN fast_path(o, env, tree, graph_file, hash_file, cache)
        ELSE orchestrate(o, env, tree, graph_file, hash_file, cache)

-----------------------------------------------------------------------------
(* Specification SpecRunner: invocations of the runner and of the plugin's *)
(* collection hook, interleaved with changes of the .py files.             *)

\* the command lines; --parallel and --coverage are left off: they take main
\* off the fast path as --regenerate-graph does
RunnerOptions ==
    [mode : {"affected", "all", "other"}, regenerate_graph : BOOLEAN,
     dry_run : BOOLEAN, json_output : BOOLEAN, parallel : {FALSE}, coverage : {FALSE}]

\* what get_changed_files reports
ReportedChanges == { <<>>, << <<"src", "a.py">> >> }

\* what load_failed_tests returns, what get_working_tree_changes returns
TestSets == { {}, { <<"tests", "test_a.py">> } }

\* the options of the plugin with what get_working_tree_changes returns
PluginConfigs ==
    { c \in [smart : BOOLEAN, smart_first : BOOLEAN, working_tree : BOOLEAN,
             wt_files : TestSets] : ~c.working_tree => c.wt_files = {} }

\* the files the runs start from and that change between them
RunnerPaths == { <<"src", "a.py">>, <<"tests", "test_a.py">> }

RunnerTrees ==
    { t \in [TreePaths -> {UsesA, Absent}] : \A p \in TreePaths \ RunnerPaths : t[p] = Absent }

InitRunner ==
    /\ fs \in RunnerTrees
    /\ astCache = NoCache
    /\ graphFile = NoGraph
    /\ hashFile = NoHashes
    /\ ret = NoCall
    /\ nChanges = 0

RunnerMain(o, changed_files, tests_pass) ==
    \E src_files \in all_files(fs), tst_files \in test_files(fs) :
        \E built \in {generate_main(fs, src_files, astCache)} :
        \E regenerated \in {regenerate(built, fs, tst_files)} :
        \E env \in {[changed_files |-> changed_files, failed |-> {},
                      tests_pass |-> tests_pass, regenerated |-> regenerated]} :
        \E done \in {main(o, env, fs, graphFile, hashFile, astCache)} :
            /\ graphFile' = done.graph_file
            /\ hashFile' = done.hash_file
            /\ astCache' = done.cache
            /\ ret' = [op |-> "smart_test_runner.main", options |-> o,
                       changed_files |-> changed_files, graph_before |-> graphFile,
                       fast_path |-> done.fast_path, regenerated |-> done.regenerated,
                       regen_raised |-> done.regen_raised,
                       tests_to_run |-> done.tests_to_run,
                       affected_raised |-> done.affected_raised,
                       query |-> done.query, pytest_started |-> done.pytest_started,
                       pytest_exit |-> done.pytest_exit,
                       update_hashes_called |-> done.update_hashes_called,
                       raised |-> done.raised, exit |-> done.exit]
            /\ UNCHANGED <<fs, nChanges>>

PluginHook(config, changed_files, failed) ==
    \E hook \in {pytest_collection_modifyitems(config, changed_files, config.wt_files,
                                                failed, fs, graphFile)} :
        /\ ret' = [op |-> "pytest_collection_modifyitems", config |-> config,
                   regenerated |-> FALSE, query |-> hook.query,
                   selected |-> hook.selected]
        /\ UNCHANGED <<fs, astCache, graphFile, hashFile, nChanges>>

NextRunner ==
    \/ \E o \in RunnerOptions, cf \in ReportedChanges, tp \in BOOLEAN : RunnerMain(o, cf, tp)
    \/ \E config \in PluginConfigs, cf \in ReportedChanges, failed \in TestSets :
          PluginHook(config, cf, failed)
    \/ \E p \in RunnerPaths : WriteFile(p, UsesA)
    \/ \E p \in RunnerPaths : DeleteFile(p)

SpecRunner == InitRunner /\ [][NextRunner]_vars

-----------------------------------------------------------------------------
(* What the claims about the runner and the plugin speak of.               *)

RunnerReturned == ret.op = "smart_test_runner.main"

\* C5: main calls update_hashes() only when pytest was run, exited with
\* code 0, and the run was a full one (no fingerprint file at the start, or
\* mode "all"); never on --dry-run or --json, after failing tests, after an
\* affected-mode run with history, or when no tests were run.  The hash file
\* changes in main by that call only.
C5_HashesOnlyAfterFullGreenRun ==
    [][ ret'.op = "smart_test_runner.main" =>
          /\ ret'.update_hashes_called =>
                /\ ret'.pytest_started
                /\ ret'.pytest_exit = 0
                /\ ~hashFile.exists \/ ret'.options.mode = "all"
                /\ ~ret'.options.dry_run
                /\ ~ret'.options.json_output
          /\ hashFile' # hashFile => ret'.update_hashes_called ]_vars

\* an affected-mode run on the orchestration path, with history, whose
\* tests passed: the snapshot saved by an earlier full run is left as it was
C5_Witness ==
    /\ RunnerReturned
    /\ ret.options.mode = "affected"
    /\ ~ret.fast_path
    /\ ret.pytest_started
    /\ ret.pytest_exit = 0
    /\ ~ret.update_hashes_called
    /\ hashFile.exists
    /\ hashFile.files # get_current_hashes(fs)

\* C8: in the runner and in the plugin's --smart / --smart-first hook, when
\* the graph is missing or stale at the start of the invocation, it is
\* regenerated before get_affected_tests reads it: the graph a selection is
\* computed from is the regenerated one.
C8_RegeneratedBeforeQuery ==
    [][ (/\ ret'.op \in {"smart_test_runner.main", "pytest_collection_modifyitems"}
         /\ ret'.query.asked
         /\ is_graph_stale(graphFile, hashFile, fs))
            => (ret'.regenerated /\ ret'.query.graph = graphFile') ]_vars

-----------------------------------------------------------------------------
(* More of what the claims about the builder speak of.                     *)

\* C11: a source file with a syntax error is not left out: its module is a
\* key of the graph with an empty imports list, and the modules that import
\* it are in its imported_by.
C11_BrokenFileIsModule ==
    BuildReturned =>
        \A f \in SourceFiles(fs) :
            fs[f] = Broken =>
                LET broken == get_module_name(f, SRC_ROOT)
                IN  /\ broken \in DOMAIN ret.graph.modules
                    /\ ret.graph.modules[broken].imports = <<>>
                    /\ \A m \in DOMAIN ret.graph.modules :
                           broken \in ImportsOf(ret.graph, m)
                               => m \in ImportedBy(ret.graph, broken)

\* the files a build parsed: all of them with the cache off, the cache
\* misses with the cache on
ParsedFiles == IF ret.use_cache THEN ret.misses ELSE Range(ret.files)

\* the dotted prefixes of a candidate, the candidate included
DottedPrefixes(cand) == { SubSeq(cand, 1, i) : i \in 1..Len(cand) }

\* the candidates of a set that have a prefix in the universe, each replaced
\* by the longest such prefix
LongestPrefixes(cands, universe) ==
    { p \in universe : \E cand \in cands :
          /\ p \in DottedPrefixes(cand)
          /\ \A q \in DottedPrefixes(cand) \cap universe : Len(q) <= Len(p) }

StrictlySorted(list) ==
    \A i \in 1..Len(list), j \in 1..Len(list) : i < j => StrLess(list[i], list[j])

\* C13: when a file is parsed, each import candidate is resolved to the
\* longest dotted prefix of the candidate (itself included) that is in the
\* module universe, a candidate with no such prefix is dropped, and the
\* imports list is sorted, without duplicates, and within the universe.
C13_LongestPrefixResolution ==
    BuildReturned =>
        \A f \in ParsedFiles :
            fs[f].ok =>
                LET mod_name == get_module_name(f, SRC_ROOT)
                    imports == ret.graph.modules[mod_name].imports
                IN  /\ Range(imports) =
                           LongestPrefixes(VisitorImports(mod_name, fs[f]), ValidModules(fs))
                    /\ StrictlySorted(imports)
                    /\ Range(imports) \subseteq ValidModules(fs)

\* a build that parsed pkg/__init__.py holding "import a; import pkg.m.sym"
\* while a, pkg and pkg.m are modules and a.py imports a and os: pkg.m.sym
\* became pkg.m, not pkg, the list is a before pkg.m, and os was dropped
C13_Witness ==
    /\ BuildReturned
    /\ {<<"src", "a.py">>, <<"src", "pkg", "__init__.py">>} \subseteq ParsedFiles
    /\ fs[<<"src", "pkg", "__init__.py">>] = UsesBoth
    /\ fs[<<"src", "a.py">>] = UsesA
    /\ fs[<<"src", "pkg", "m.py">>].exists
    /\ ret.graph.modules[<<"pkg">>].imports = << <<"a">>, <<"pkg", "m">> >>
    /\ ret.graph.modules[<<"a">>].imports = << <<"a">> >>

-----------------------------------------------------------------------------
(* Specification SpecLayout: the changed-file step of get_affected_tests   *)
(* for one .py file under the source root, as a function of the layout    *)
(* (_paths._discover_src_dir: src_dir of pyproject.toml, else src, else    *)
(* the repository root), of the graph's keys, and of whether the file is   *)
(* still there.                                                            *)

\* src, backend/src (src_dir = "backend/src"), and the repository root
SrcRoots == { <<"src">>, <<"backend", "src">>, <<>> }

\* .py files below the source root
RelPaths ==
    { <<"a.py">>, <<"__init__.py">>, <<"pkg", "__init__.py">>, <<"pkg", "m.py">>,
      <<"src", "a.py">> }

LayoutMods == { <<"a">>, <<"pkg">>, <<"pkg", "m">>, <<"src", "a">> }

InitLayout ==
    /\ fs = [p \in TreePaths |-> Absent]
    /\ astCache = NoCache
    /\ graphFile \in { [exists |-> TRUE, modules |-> [m \in keys |-> [imported_by |-> <<>>]]]
                         : keys \in SUBSET LayoutMods }
    /\ hashFile = NoHashes
    /\ ret = NoCall
    /\ nChanges = 0

\* the step for the file src_root/rel, once with the file deleted and once
\* with the file there
ChangedFileStep(src_root, rel) ==
    /\ ret = NoCall
    /\ ret' = [op |-> "changed_file", src_root |-> src_root, path |-> src_root \o rel,
               inferred |-> DeletedModuleName(src_root \o rel),
               deleted |-> ChangedFileAddsAt(src_root, src_root \o rel, FALSE,
                                             DOMAIN graphFile.modules).mods,
               modified |-> ChangedFileAddsAt(src_root, src_root \o rel, TRUE,
                                              DOMAIN graphFile.modules).mods]
    /\ UNCHANGED <<fs, astCache, graphFile, hashFile, nChanges>>

NextLayout == \E src_root \in SrcRoots, rel \in RelPaths : ChangedFileStep(src_root, rel)

SpecLayout == InitLayout /\ [][NextLayout]_vars

\* C12: for every .py file under the source root, the module name inferred
\* from the path of the deleted file is get_module_name of the path; hence,
\* against the same graph, the deleted file marks the modules the modified
\* file would mark.
C12_DeletedNameIsModuleName ==
    ret.op = "changed_file" =>
        /\ ret.inferred = [none |-> FALSE, name |-> get_module_name(ret.path, ret.src_root)]
        /\ ret.deleted = ret.modified

\* the same under the layout whose source root is src
DeletedNameIsModuleNameUnderSrc ==
    (ret.op = "changed_file" /\ ret.src_root = SRC_ROOT) =>
        /\ ret.inferred = [none |-> FALSE, name |-> get_module_name(ret.path, ret.src_root)]
        /\ ret.deleted = ret.modified

-----------------------------------------------------------------------------
(* Specification SpecVisitor: ImportVisitor.visit_ImportFrom on one node   *)
(* "from <level dots><module> import ...", for the module the visitor was  *)
(* built for.  The empty module name is that of __init__.py directly under *)
(* the source root.                                                        *)

MaxLevel == 4

VisitorModules ==
    { <<>>, <<"a">>, <<"pkg">>, <<"pkg", "m">>, <<"pkg", "sub">>,
      <<"pkg", "sub", "mod">>, <<"a", "b", "c">> }

\* node.module: None, x, x.y, m
NodeModules == { <<>>, <<"x">>, <<"x", "y">>, <<"m">> }

InitVisitor ==
    /\ fs = [p \in TreePaths |-> Absent]
    /\ astCache = NoCache
    /\ graphFile = NoGraph
    /\ hashFile = NoHashes
    /\ ret = NoCall
    /\ nChanges = 0

\* visit_ImportFrom: _resolve_relative is called for the levels above 0
VisitImportFrom(current_module, level, module) ==
    /\ ret = NoCall
    /\ ret' = [op |-> "visit_ImportFrom", current_module |-> current_module,
               level |-> level, module |-> module,
               called |-> level # 0,
               resolved |-> IF level # 0
                            THEN resolve_relative(current_module, level, module)
                            ELSE NoneResult,
               imports |-> VisitNode(current_module,
                                     [kind |-> "from", level |-> level, module |-> module])]
    /\ UNCHANGED <<fs, astCache, graphFile, hashFile, nChanges>>

NextVisitor ==
    \E current_module \in VisitorModules, level \in 0..MaxLevel, module \in NodeModules :
        VisitImportFrom(current_module, level, module)

SpecVisitor == InitVisitor /\ [][NextVisitor]_vars

\* the number of dot-separated components of a module name, counted as
\* str.split(".") counts them: the empty name is one empty component
Components(name) == IF name = <<>> THEN 1 ELSE Len(name)

-----------------------------------------------------------------------------
(* Specification SpecMapper: graph generations and runs of the mapper      *)
(* interleaved with additions and deletions of test files, over a source   *)
(* tree with modules a, pkg, pkg.a and pkg.m.  Without pkg/__init__.py no  *)
(* package is discovered.                                                  *)

MapperSrcPaths == SrcPaths \cup { <<"src", "pkg", "a.py">> }

MapperTestPaths ==
    { <<"tests", "test_a.py">>, <<"tests", "test_m.py">>, <<"tests", "pkg", "test_m.py">> }

MapperTrees ==
    { t \in [MapperSrcPaths \cup MapperTestPaths -> {EmptyFile, Absent}] :
        \A p \in MapperSrcPaths \ { <<"src", "pkg", "__init__.py">> } : t[p] = EmptyFile }

InitMapper ==
    /\ fs \in MapperTrees
    /\ astCache = [p \in MapperSrcPaths |-> [cached |-> FALSE]]
    /\ graphFile = NoGraph
    /\ hashFile = NoHashes
    /\ ret = NoCall
    /\ nChanges = 0

\* map_tests_to_modules(TEST_ROOT) against the graph file as it is
CallMapTestsToModules ==
    \E files \in test_files(fs) :
        /\ ret' = [op |-> "map_tests_to_modules", files |-> files,
                   packages |-> PACKAGES(fs),
                   result |-> map_tests_to_modules(graphFile, files, PACKAGES(fs))]
        /\ UNCHANGED <<fs, astCache, graphFile, hashFile, nChanges>>

\* test_module_mapper.main
MapperMain ==
    \E files \in test_files(fs) :
        /\ graphFile' = mapper_main(fs, graphFile, files, PACKAGES(fs))
        /\ ret' = [op |-> "test_module_mapper.main"]
        /\ UNCHANGED <<fs, astCache, hashFile, nChanges>>

\* a test file is added
AddTestFile(p) ==
    /\ nChanges < MaxChanges
    /\ ~fs[p].exists
    /\ fs' = [fs EXCEPT ![p] = EmptyFile]
    /\ ret' = NoCall
    /\ nChanges' = nChanges + 1
    /\ UNCHANGED <<astCache, graphFile, hashFile>>

\* a test file is deleted
DeleteTestFile(p) ==
    /\ nChanges < MaxChanges
    /\ fs[p].exists
    /\ fs' = [fs EXCEPT ![p] = Absent]
    /\ ret' = NoCall
    /\ nChanges' = nChanges + 1
    /\ UNCHANGED <<astCache, graphFile, hashFile>>

NextMapper ==
    \/ GenerateGraph
    \/ CallMapTestsToModules
    \/ MapperMain
    \/ \E p \in MapperTestPaths : AddTestFile(p)
    \/ \E p \in MapperTestPaths : DeleteTestFile(p)

SpecMapper == InitMapper /\ [][NextMapper]_vars

\* the candidate d1. ... .dk.N of the test file <test_root>/d1/.../dk/test_N.py
CandidateOf(test_file) ==
    LET rel == SubSeq(test_file, Len(TEST_ROOT) + 1, Len(test_file))
        N == CHOOSE n \in {"a", "h", "m"} : Last(rel) = "test_" \o n \o ".py"
    IN  Front(rel) \o <<N>>

\* the test files map_tests_to_modules lists under module m
MappedUnder(mapping, m) == IF m \in DOMAIN mapping.at THEN Range(mapping.at[m]) ELSE {}

\* C15: map_tests_to_modules maps the test file <test_root>/d1/.../dk/test_N.py
\* to module m if and only if m is a key of the graph and m is the candidate
\* d1. ... .dk.N or P.<candidate> for a discovered package P; a test file
\* with no such match is in no module's list, one with several is in each.
C15_TestFileMapping ==
    (ret.op = "map_tests_to_modules" /\ graphFile.exists) =>
        /\ DOMAIN ret.result.at \subseteq DOMAIN graphFile.modules
        /\ \A m \in DOMAIN graphFile.modules :
               MappedUnder(ret.result, m) =
                   { t \in Range(ret.files) :
                       \/ m = CandidateOf(t)
                       \/ \E i \in 1..Len(ret.packages) : m = ret.packages[i] \o CandidateOf(t) }

\* tests/test_a.py is listed under a and under pkg.a, tests/test_m.py and
\* tests/pkg/test_m.py both under pkg.m
C15_Witness ==
    /\ ret.op = "map_tests_to_modules"
    /\ graphFile.exists
    /\ Range(ret.files) = MapperTestPaths
    /\ MappedUnder(ret.result, <<"a">>) = { <<"tests", "test_a.py">> }
    /\ MappedUnder(ret.result, <<"pkg", "a">>) = { <<"tests", "test_a.py">> }
    /\ MappedUnder(ret.result, <<"pkg", "m">>) =
           { <<"tests", "test_m.py">>, <<"tests", "pkg", "test_m.py">> }
    /\ <<"pkg">> \notin DOMAIN ret.result.at

\* the per-module tests list and the test_map entry of a persisted graph
TestsListed(graph_file, m) ==
    IF "tests" \in DOMAIN graph_file.modules[m] THEN Range(graph_file.modules[m].tests) ELSE {}

TestMapOf(graph_file, t) ==
    IF "test_map" \in DOMAIN graph_file /\ t \in DOMAIN graph_file.test_map
    THEN Range(graph_file.test_map[t]) ELSE {}

\* C16: after test_module_mapper.main() completes, following any sequence
\* of generations, mapper runs and test-file additions or deletions, the
\* persisted graph's test_map is the exact inverse of the per-module tests
\* lists: t is in modules[m].tests if and only if m is in test_map[t].
C16_TestMapIsInverse ==
    (ret.op = "test_module_mapper.main" /\ graphFile.exists) =>
        \A m \in DOMAIN graphFile.modules, t \in MapperTestPaths :
            t \in TestsListed(graphFile, m) <=> m \in TestMapOf(graphFile, t)

\* the same for a mapper run on a freshly generated graph
TestMapIsInverseAfterGeneration ==
    [][ (ret.op = "generate_dependency_graph.main" /\ ret'.op = "test_module_mapper.main")
          => \A m \in DOMAIN graphFile'.modules, t \in MapperTestPaths :
                 t \in TestsListed(graphFile', m) <=> m \in TestMapOf(graphFile', t) ]_vars

-----------------------------------------------------------------------------
(* Specification SpecReaders: the readers of the persisted files while     *)
(* the files are being rewritten.  Every writer opens its file with        *)
(* open(path, "w"), which empties it, and then dumps the JSON text: between *)
(* the two a reader finds a text that is not JSON.                         *)

\* a file opened for writing whose JSON text is not complete yet
Truncated == [exists |-> TRUE, truncated |-> TRUE]

IsMalformed(file) == file = Truncated

\* json.load(f): json.JSONDecodeError on a text that is not JSON
json_load(file) ==
    IF IsMalformed(file) THEN [raised |-> TRUE, exc |-> "JSONDecodeError"]
    ELSE [raised |-> FALSE, value |-> file]

\* get_affected_tests, from the read of the graph file on
GetAffectedTestsRead(changed_files, tree, graph_file) ==
    IF ~graph_file.exists
    THEN [raised |-> FALSE, result |-> get_affected_tests(changed_files, tree, NoGraph)]
    ELSE LET graph == json_load(graph_file)
         IN  IF graph.raised THEN graph
             ELSE [raised |-> FALSE,
                   result |-> get_affected_tests(changed_files, tree, graph.value)]

\* map_tests_to_modules, from the read of the graph file on
MapTestsToModulesRead(graph_file, files, packages) ==
    IF ~graph_file.exists
    THEN [raised |-> FALSE, result |-> map_tests_to_modules(NoGraph, files, packages)]
    ELSE LET graph == json_load(graph_file)
         IN  IF graph.raised THEN graph
             ELSE [raised |-> FALSE,
                   result |-> map_tests_to_modules(graph.value, files, packages)]

\* file_hash_manager.load_hashes: except Exception: return {}
LoadHashesRead(hash_file) ==
    IF ~hash_file.exists THEN [raised |-> FALSE, result |-> EmptyMap]
    ELSE LET data == json_load(hash_file)
         IN  IF data.raised THEN [raised |-> FALSE, result |-> EmptyMap]
             ELSE [raised |-> FALSE, result |-> load_hashes(data.value)]

\* CacheEntry._load of the AST cache file: except Exception: self._data = {}
CacheEntryLoad(cache_file) ==
    LET data == json_load(cache_file)
    IN  IF data.raised THEN [raised |-> FALSE, result |-> NoCache]
        ELSE [raised |-> FALSE, result |-> data.value]

ReaderChanges == { <<>>, << <<"src", "a.py">> >> }

InitReaders ==
    /\ fs \in RunnerTrees
    /\ astCache = NoCache
    /\ graphFile = NoGraph
    /\ hashFile = NoHashes
    /\ ret = NoCall
    /\ nChanges = 0

\* open(out_file, "w") in generate_dependency_graph.main
OpenGraphForWrite ==
    /\ graphFile' = Truncated
    /\ ret' = [op |-> "open", file |-> "dependency_graph.json"]
    /\ UNCHANGED <<fs, astCache, hashFile, nChanges>>

\* json.dump(graph, f) in generate_dependency_graph.main
DumpGraph ==
    /\ IsMalformed(graphFile)
    /\ \E files \in all_files(fs) :
           graphFile' = generate_main(fs, files, CacheEntryLoad(astCache).result).graph
    /\ ret' = [op |-> "dump", file |-> "dependency_graph.json"]
    /\ UNCHANGED <<fs, astCache, hashFile, nChanges>>

\* open(HASH_FILE, "w") in save_hashes
OpenHashesForWrite ==
    /\ hashFile' = Truncated
    /\ ret' = [op |-> "open", file |-> "file_hashes.json"]
    /\ UNCHANGED <<fs, astCache, graphFile, nChanges>>

\* json.dump({"files": hashes}, f) in save_hashes
DumpHashes ==
    /\ IsMalformed(hashFile)
    /\ hashFile' = update_hashes(fs)
    /\ ret' = [op |-> "dump", file |-> "file_hashes.json"]
    /\ UNCHANGED <<fs, astCache, graphFile, nChanges>>

\* open(self.file_path, "w") in CacheEntry.save
OpenCacheForWrite ==
    /\ astCache' = Truncated
    /\ ret' = [op |-> "open", file |-> "ast_parse_cache.json"]
    /\ UNCHANGED <<fs, graphFile, hashFile, nChanges>>

\* json.dump(self._data, f) in CacheEntry.save, after a generation
DumpCache ==
    /\ IsMalformed(astCache)
    /\ \E files \in all_files(fs) :
           astCache' = generate_main(fs, files, NoCache).cache
    /\ ret' = [op |-> "dump", file |-> "ast_parse_cache.json"]
    /\ UNCHANGED <<fs, graphFile, hashFile, nChanges>>

\* a reader returns or raises; if_missing is what it returns when the file
\* is not there
ReadGraphForAffectedTests(changed_files) ==
    /\ ret' = [op |-> "get_affected_tests", reader |-> TRUE,
               malformed |-> IsMalformed(graphFile),
               if_missing |-> GetAffectedTestsRead(changed_files, fs, NoGraph)]
                 @@ GetAffectedTestsRead(changed_files, fs, graphFile)
    /\ UNCHANGED <<fs, astCache, graphFile, hashFile, nChanges>>

ReadGraphForMapping ==
    /\ \E files \in test_files(fs) :
           ret' = [op |-> "map_tests_to_modules", reader |-> TRUE,
                   malformed |-> IsMalformed(graphFile),
                   if_missing |-> MapTestsToModulesRead(NoGraph, files, PACKAGES(fs))]
                     @@ MapTestsToModulesRead(graphFile, files, PACKAGES(fs))
    /\ UNCHANGED <<fs, astCache, graphFile, hashFile, nChanges>>

ReadHashes ==
    /\ ret' = [op |-> "load_hashes", reader |-> TRUE,
               malformed |-> IsMalformed(hashFile),
               if_missing |-> LoadHashesRead(NoHashes)]
                 @@ LoadHashesRead(hashFile)
    /\ UNCHANGED <<fs, astCache, graphFile, hashFile, nChanges>>

ReadCacheEntry ==
    /\ ret' = [op |-> "CacheEntry._load", reader |-> TRUE,
               malformed |-> IsMalformed(astCache),
               if_missing |-> [raised |-> FALSE, result |-> NoCache]]
                 @@ CacheEntryLoad(astCache)
    /\ UNCHANGED <<fs, astCache, graphFile, hashFile, nChanges>>

NextReaders ==
    \/ OpenGraphForWrite
    \/ DumpGraph
    \/ OpenHashesForWrite
    \/ DumpHashes
    \/ OpenCacheForWrite
    \/ DumpCache
    \/ \E changed_files \in ReaderChanges : ReadGraphForAffectedTests(changed_files)
    \/ ReadGraphForMapping
    \/ ReadHashes
    \/ ReadCacheEntry

SpecReaders == InitReaders /\ [][NextReaders]_vars

ReaderReturned == "reader" \in DOMAIN ret

\* C17: every reader of a persisted file (dependency_graph.json read by
\* get_affected_tests and map_tests_to_modules, file_hashes.json read by
\* load_hashes, every CacheEntry load) treats a truncated or malformed
\* file, as seen while another process rewrites it, as missing or empty,
\* and never raises.
C17_ReadersTolerateMalformed ==
    ReaderReturned =>
        /\ ~ret.raised
        /\ ret.malformed => ret.result = ret.if_missing.result

\* the same of load_hashes and CacheEntry._load alone
GuardedReadersTolerateMalformed ==
    (ReaderReturned /\ ret.op \in {"load_hashes", "CacheEntry._load"}) =>
        /\ ~ret.raised
        /\ ret.malformed => ret.result = ret.if_missing.result

-----------------------------------------------------------------------------
(* Specification SpecUnreadable: graph builds over source trees in which   *)
(* a file may hold bytes that are not UTF-8.  compute_file_hash reads the  *)
(* bytes and succeeds; file_path.read_text(encoding="utf-8") raises        *)
(* UnicodeDecodeError, which is not a SyntaxError.                         *)

UnreadableTrees ==
    { src @@ NoTests : src \in [SrcPaths -> {Absent, UsesA, UsesM, Undecodable}] }

InitUnreadable ==
    /\ fs \in UnreadableTrees
    /\ astCache = NoCache
    /\ graphFile = NoGraph
    /\ hashFile = NoHashes
    /\ ret = NoCall
    /\ nChanges = 0

\* a build returns a graph or raises; after a raise nothing was saved
BuildOrRaise(changed_files, use_cache) ==
    \E files \in all_files(fs) :
        \E built \in {scan_and_build_graph_raising(fs, files, changed_files, use_cache, astCache)} :
            /\ astCache' = IF built.raised THEN astCache ELSE built.cache
            /\ ret' = [op |-> "scan_and_build_graph", files |-> files,
                       changed_files |-> changed_files, use_cache |-> use_cache,
                       raised |-> built.raised,
                       graph |-> IF built.raised THEN NoGraph ELSE built.graph]
            /\ UNCHANGED <<fs, graphFile, hashFile, nChanges>>

NextUnreadable ==
    \E args \in BuildArgs : BuildOrRaise(args.changed_files, args.use_cache)

SpecUnreadable == InitUnreadable /\ [][NextUnreadable]_vars

\* C18: if a source file cannot be read or decoded during a graph build,
\* the error does not propagate out of scan_and_build_graph: the build
\* completes for all other files, and the unreadable file is treated as
\* having no imports.
C18_UnreadableFileIsolated ==
    [][ ret'.op = "scan_and_build_graph" =>
          /\ ~ret'.raised
          /\ \A f \in SourceFiles(fs) :
               ReadTextRaises(fs[f]) =>
                 LET unreadable == get_module_name(f, SRC_ROOT)
                     hyp == scan_and_build_graph([fs EXCEPT ![f] = EmptyFile],
                                                 ret'.files,
                                                 ret'.changed_files, ret'.use_cache,
                                                 astCache).graph
                     others == DOMAIN hyp.modules \ {unreadable}
                 IN  /\ DOMAIN ret'.graph.modules \ {unreadable} = others
                     /\ \A m \in others : ret'.graph.modules[m] = hyp.modules[m] ]_vars

\* builds over trees in which every file decodes never raise
DecodableTreesBuild ==
    (ret.op = "scan_and_build_graph" /\ \A f \in SourceFiles(fs) : ~ReadTextRaises(fs[f]))
        => ~ret.raised

-----------------------------------------------------------------------------
(* Specification SpecRemote: graph builds with a remote cache backend.     *)
(* What the backend holds under "ast_parse_cache" is the AST cache some    *)
(* checkout of the project left after a build of its own tree.             *)

\* get_remote_cache_backend() returns None
NoBackend == [configured |-> FALSE]

RemoteSrcTrees ==
    { t \in SourceTrees :
        /\ t[<<"src", "a.py">>] \in {UsesA, UsesM, UsesBoth}
        /\ t[<<"src", "pkg", "__init__.py">>] \in {Absent, EmptyFile}
        /\ t[<<"src", "pkg", "m.py">>] \in {Absent, EmptyFile} }

\* the backends: for each tree, the cache a build of that tree leaves
RemoteBackends ==
    { [configured |-> TRUE, universe |-> ValidModules(t),
       data |-> scan_and_build_graph(t, sorted(SourceFiles(t)), NoneFiles, TRUE, NoCache).cache]
        : t \in RemoteSrcTrees }

\* CacheManager._sync_from_remote: the remote entries are merged into the
\* local cache, the local entry winning
sync_from_remote(local_cache, backend) ==
    IF ~backend.configured THEN local_cache
    ELSE [key \in DOMAIN local_cache |->
             IF local_cache[key].cached THEN local_cache[key] ELSE backend.data[key]]

InitRemote ==
    /\ fs \in RemoteSrcTrees
    /\ astCache = NoCache
    /\ graphFile = NoGraph
    /\ hashFile = NoHashes
    /\ ret = NoCall
    /\ nChanges = 0

\* scan_and_build_graph(SRC_ROOT, use_cache=True) under a backend
BuildWithBackend(backend) ==
    \E files \in all_files(fs) :
        \E built \in {scan_and_build_graph(fs, files, NoneFiles, TRUE,
                                           sync_from_remote(astCache, backend))} :
            /\ astCache' = built.cache
            /\ ret' = [op |-> "scan_and_build_graph", files |-> files,
                       changed_files |-> NoneFiles, use_cache |-> TRUE,
                       backend |-> backend, graph |-> built.graph,
                       hits |-> built.hits, misses |-> built.misses]
            /\ UNCHANGED <<fs, graphFile, hashFile, nChanges>>

NextRemote == \E backend \in RemoteBackends \cup {NoBackend} : BuildWithBackend(backend)

SpecRemote == InitRemote /\ [][NextRemote]_vars

\* C19: for the same file-system state, the graph scan_and_build_graph
\* returns when _sync_from_remote has pre-seeded the AST cache from a remote
\* backend is the graph it returns when no backend is configured: remote
\* entries change how many files are parsed, never the imports.
C19_RemoteSeedSameGraph ==
    [][ (ret'.op = "scan_and_build_graph" /\ ret'.backend.configured) =>
            ret'.graph = scan_and_build_graph(fs, ret'.files, NoneFiles, TRUE, astCache).graph
      ]_vars

\* the same when the backend's cache comes from a tree with the module
\* universe of this one
SameUniverseRemoteSameGraph ==
    [][ (/\ ret'.op = "scan_and_build_graph"
         /\ ret'.backend.configured
         /\ ret'.backend.universe = ValidModules(fs)) =>
            ret'.graph = scan_and_build_graph(fs, ret'.files, NoneFiles, TRUE, astCache).graph
      ]_vars

-----------------------------------------------------------------------------
(* Specification SpecFrame: get_affected_tests on a changed-file list and  *)
(* on the same list with one more path, a path that has no entry in the    *)
(* graph.                                                                  *)

\* paths outside the source and tests trees, and files that are not .py
ForeignPaths ==
    { <<"README.md">>, <<"src", "README.md">>, <<"docs", "a.py">>,
      <<"docs", "src", "a.py">>, <<"docs", "tests", "test_a.py">> }

FramePaths == TreePaths \cup ForeignPaths \cup { <<"src", "b.py">> }

FrameTrees == { [p \in FramePaths |-> EmptyFile], [p \in FramePaths |-> Absent] }

\* no imports at all, or pkg imports a and pkg.m imports pkg
FrameGraphs ==
    { [exists |-> TRUE, modules |-> [m \in keys |-> SampleEntry(m, rel[m])]]
        : keys \in { GraphMods, { <<"a">>, <<"pkg">> }, {} },
          rel \in { [m \in GraphMods |-> {}],
                    [m \in GraphMods |->
                       IF m = <<"a">> THEN { <<"pkg">> }
                       ELSE IF m = <<"pkg">> THEN { <<"pkg", "m">> } ELSE {}] } }
    \cup {NoGraph}

InitFrame ==
    /\ fs \in FrameTrees
    /\ graphFile \in FrameGraphs
    /\ astCache = NoCache
    /\ hashFile = NoHashes
    /\ ret = NoCall
    /\ nChanges = 0

\* a non-.py file, a file outside the source and tests trees, or a source
\* file whose module is not a key of the graph
HasNoGraphEntry(file_path, graph_file) ==
    \/ ~EndsWithPy(Last(file_path))
    \/ ~IsUnder(file_path, SRC_ROOT) /\ ~IsUnder(file_path, TEST_ROOT)
    \/ /\ IsUnder(file_path, SRC_ROOT)
       /\ graph_file.exists => get_module_name(file_path, SRC_ROOT) \notin DOMAIN graph_file.modules

InsertAt(list, pos, x) == SubSeq(list, 1, pos) \o <<x>> \o SubSeq(list, pos + 1, Len(list))

\* get_affected_tests when get_changed_files reports changed_files, and when
\* it reports them with extra at position pos
CallWithExtraPath(changed_files, extra, pos) ==
    /\ ret = NoCall
    /\ HasNoGraphEntry(extra, graphFile)
    /\ ret' = [op |-> "get_affected_tests", changed |-> changed_files, extra |-> extra,
               without |-> get_affected_tests(changed_files, fs, graphFile),
               with |-> get_affected_tests(InsertAt(changed_files, pos, extra), fs, graphFile)]
    /\ UNCHANGED <<fs, astCache, graphFile, hashFile, nChanges>>

NextFrame ==
    \E changed_files \in ChangedLists, extra \in FramePaths :
        \E pos \in 0..Len(changed_files) : CallWithExtraPath(changed_files, extra, pos)

SpecFrame == InitFrame /\ [][NextFrame]_vars

ExtraPathCall == ret.op = "get_affected_tests" /\ "extra" \in DOMAIN ret

\* C20: adding to the changed-file list a path with no graph entry (a
\* non-.py file, a file outside the source and tests trees, or a source
\* file whose module is not in the graph) does not change the result of
\* get_affected_tests; an empty changed-file list yields empty
\* affected_modules and empty tests.
C20_NoEntryPathChangesNothing ==
    ExtraPathCall =>
        /\ ret.with = ret.without
        /\ ret.changed = <<>> =>
               (ret.without.affected_modules = <<>> /\ ret.without.tests = <<>>)

\* the same for the paths no directory of which is named tests
NoEntryPathOutsideTestsDirs ==
    (ExtraPathCall /\ ~ContainsDir(ret.extra, "tests")) =>
        /\ ret.with = ret.without
        /\ ret.changed = <<>> =>
               (ret.without.affected_modules = <<>> /\ ret.without.tests = <<>>)

-----------------------------------------------------------------------------
(* More of what the claims about the resolver speak of.                    *)

\* C21: get_affected_tests is a function of the graph and of the set of
\* changed files: the same files in any order, with or without duplicates,
\* give the same affected_modules and tests, each sorted ascending and free
\* of duplicates.  Every list is compared with the list that names each of
\* its files once, in ascending order.
C21_AffectedTestsDeterministic ==
    (ret.op = "get_affected_tests" /\ "result" \in DOMAIN ret) =>
        /\ LET once == sorted(Range(ret.changed))
                again == get_affected_tests(once, fs, graphFile)
            IN  /\ again.affected_modules = ret.result.affected_modules
                /\ again.tests = ret.result.tests
        /\ StrictlySorted(ret.result.affected_modules)
        /\ StrictlySorted(ret.result.tests)

\* tests/test_a.py reported twice against a graph in which it is also a
\* test of module a: it is returned once
C21_Witness ==
    /\ ret.op = "get_affected_tests"
    /\ "result" \in DOMAIN ret
    /\ graphFile.exists
    /\ ret.changed = << <<"tests", "test_a.py">>, <<"tests", "test_a.py">> >>
    /\ ret.result.tests = << <<"tests", "test_a.py">> >>

-----------------------------------------------------------------------------
(* find_affected_modules.get_changed_files and get_working_tree_changes,    *)
(* and file_hash_manager.get_changed_files_hash they fall back to.  A list  *)
(* of changed files is written as the set of its paths: its order is the    *)
(* order of the directory walk and of git's output.                         *)

\* file_hash_manager.get_changed_files_hash
get_changed_files_hash(hash_file, tree) ==
    LET old_hashes == load_hashes(hash_file)
    IN  IF DOMAIN old_hashes = {} THEN get_all_py_files(tree)
        ELSE LET new_hashes == get_current_hashes(tree)
             IN  { path \in DOMAIN new_hashes :
                     \/ path \notin DOMAIN old_hashes
                     \/ old_hashes[path] # new_hashes[path] }
                 \cup { path \in DOMAIN old_hashes : path \notin DOMAIN new_hashes }

\* what subprocess.run(["git", ...], check=True) does: it returns git's
\* output, raises CalledProcessError when git exits with a non-zero status
\* (no repository, unknown base reference), or raises FileNotFoundError when
\* there is no git executable
GitListed == { <<"src", "a.py">>, <<"tests", "test_a.py">>, <<"README.md">> }

SubprocessRuns ==
    { [raises |-> "none", stdout |-> s] : s \in SUBSET GitListed }
        \cup { [raises |-> "CalledProcessError"], [raises |-> "FileNotFoundError"] }

\* find_affected_modules.get_changed_files: only CalledProcessError is caught
get_changed_files(run, hash_file, tree) ==
    CASE run.raises = "none" -> [raised |-> "none", result |-> run.stdout]
      [] run.raises = "CalledProcessError" ->
            [raised |-> "none", result |-> get_changed_files_hash(hash_file, tree)]
      [] OTHER -> [raised |-> run.raises]

\* find_affected_modules.get_working_tree_changes: only CalledProcessError
\* is caught
get_working_tree_changes(run, hash_file, tree) ==
    CASE run.raises = "none" ->
            [raised |-> "none", result |-> { p \in run.stdout : EndsWithPy(Last(p)) }]
      [] run.raises = "CalledProcessError" ->
            [raised |-> "none", result |-> get_changed_files_hash(hash_file, tree)]
      [] OTHER -> [raised |-> run.raises]

-----------------------------------------------------------------------------
(* Specification SpecGit: the two queries of version control, with every    *)
(* outcome of the git command, interleaved with fingerprint saves and       *)
(* changes of the .py files.                                                *)

InitGit ==
    /\ fs \in StaleTrees
    /\ astCache = NoCache
    /\ graphFile = NoGraph
    /\ hashFile = NoHashes
    /\ ret = NoCall
    /\ nChanges = 0

GetChangedFiles ==
    \E run \in SubprocessRuns, staged \in BOOLEAN :
        /\ ret' = [op |-> "get_changed_files", staged |-> staged, run |-> run,
                   out |-> get_changed_files(run, hashFile, fs)]
        /\ UNCHANGED <<fs, astCache, graphFile, hashFile, nChanges>>

GetWorkingTreeChanges ==
    \E run \in SubprocessRuns :
        /\ ret' = [op |-> "get_working_tree_changes", run |-> run,
                   out |-> get_working_tree_changes(run, hashFile, fs)]
        /\ UNCHANGED <<fs, astCache, graphFile, hashFile, nChanges>>

NextGit ==
    \/ GetChangedFiles
    \/ GetWorkingTreeChanges
    \/ UpdateHashes
    \/ \E p \in TreePaths, c \in FileContents : WriteFile(p, c)
    \/ \E p \in TreePaths : DeleteFile(p)

SpecGit == InitGit /\ [][NextGit]_vars

GitQueryReturned == ret.op \in {"get_changed_files", "get_working_tree_changes"}

\* C22: get_changed_files and get_working_tree_changes never raise when
\* version control is unavailable or the git command fails: in every such
\* case they return what get_changed_files_hash() returns.
C22_GitFailureFallsBack ==
    (GitQueryReturned /\ ret.run.raises # "none") =>
        /\ ret.out.raised = "none"
        /\ ret.out.result = get_changed_files_hash(hashFile, fs)

\* the same for the git command that runs and exits with a non-zero status
FailedGitCommandFallsBack ==
    (GitQueryReturned /\ ret.run.raises = "CalledProcessError") =>
        /\ ret.out.raised = "none"
        /\ ret.out.result = get_changed_files_hash(hashFile, fs)

-----------------------------------------------------------------------------
(* More of what the claims about the builder speak of.                     *)

\* the file is named in the changed-file set handed to the build
InChangedFiles(changed_files, f) == ~changed_files.none /\ f \in changed_files.files

\* the AST cache has an entry of the file with its present hash and module name
HasFreshEntry(cache, tree, f) ==
    /\ cache[f].cached
    /\ cache[f].hash = compute_file_hash(tree[f])
    /\ cache[f].module_name = get_module_name(f, SRC_ROOT)

-----------------------------------------------------------------------------
(* cache_manager.CacheEntry.  A dict is written as the set of its keys;    *)
(* an entry is the record of its _data, _dirty and _loaded attributes.     *)

\* self._data = None
NoData == [none |-> TRUE]

SomeData(d) == [none |-> FALSE, dict |-> d]

\* the file after json.dump(d, f)
JsonFile(d) == [exists |-> TRUE, json |-> d]

\* CacheEntry.__init__(file_path): no data given
NewCacheEntry == [data |-> NoData, dirty |-> FALSE, loaded |-> FALSE]

\* CacheEntry._load: {} when the file is missing or does not load
entry_load(entry, file) ==
    IF ~file.exists THEN [entry EXCEPT !.data = SomeData({}), !.loaded = TRUE]
    ELSE IF IsMalformed(file) THEN [entry EXCEPT !.data = SomeData({}), !.loaded = TRUE]
    ELSE [entry EXCEPT !.data = SomeData(file.json), !.loaded = TRUE]

\* the getter of CacheEntry.data: the entry it leaves and the value it returns
data_get(entry, file) ==
    LET loaded == IF ~entry.loaded THEN entry_load(entry, file) ELSE entry
    IN  [entry |-> loaded,
         value |-> IF loaded.data.none THEN {} ELSE loaded.data.dict]

\* the setter of CacheEntry.data
data_set(entry, value) == [data |-> SomeData(value), dirty |-> TRUE, loaded |-> TRUE]

\* the mutant: the entry is marked clean whether or not the write succeeded
save_always_clean(entry, file, force, io) ==
    IF ~entry.dirty /\ ~force THEN [entry |-> entry, file |-> file, wrote |-> "no"]
    ELSE IF entry.data.none THEN [entry |-> entry, file |-> file, wrote |-> "no"]
    ELSE CASE io = "ok" ->
                [entry |-> [entry EXCEPT !.dirty = FALSE],
                 file |-> JsonFile(entry.data.dict), wrote |-> "ok"]
           [] io = "open raises" ->
                [entry |-> [entry EXCEPT !.dirty = FALSE], file |-> file, wrote |-> "failed"]
           [] io = "dump raises" ->
                [entry |-> [entry EXCEPT !.dirty = FALSE], file |-> Truncated, wrote |-> "failed"]

\* CacheEntry.save(force); io is what the file system does with the write:
\* it succeeds, mkdir or open raises (the file is as it was), or the dump
\* raises after open(file_path, "w") has emptied the file
save(entry, file, force, io) ==
    IF ~entry.dirty /\ ~force THEN [entry |-> entry, file |-> file, wrote |-> "no"]
    ELSE IF entry.data.none THEN [entry |-> entry, file |-> file, wrote |-> "no"]
    ELSE CASE io = "ok" ->
                [entry |-> [entry EXCEPT !.dirty = FALSE],
                 file |-> JsonFile(entry.data.dict), wrote |-> "ok"]
           [] io = "open raises" ->
                [entry |-> entry, file |-> file, wrote |-> "failed"]
           [] io = "dump raises" ->
                [entry |-> entry, file |-> Truncated, wrote |-> "failed"]

\* the mutant: the entry is only marked for reloading
invalidate_keeps_data(entry) == [entry EXCEPT !.loaded = FALSE]

\* CacheEntry.invalidate
invalidate(entry) == [data |-> NoData, dirty |-> FALSE, loaded |-> FALSE]

-----------------------------------------------------------------------------
(* Specification SpecEntry: one CacheEntry, that of the AST parse cache,    *)
(* under any sequence of reads and assignments of data, save() and          *)
(* invalidate(), while its file may be rewritten or removed from outside.   *)
(* Here astCache is the entry object and fs holds the entry's file.  ret    *)
(* carries, next to the call, the history the claims speak of: the values   *)
(* assigned since the last successful save or invalidate (unsaved), whether *)
(* invalidate() was the last call to touch the data (invalidated), and the  *)
(* values that were unsaved when an invalidate() dropped them (lost).       *)

CacheFile == <<"ast_parse_cache.json">>

DataValues == { {}, {"x"}, {"y"} }

CacheFileStates == {Absent, Truncated} \cup { JsonFile(d) : d \in DataValues }

WriteOutcomes == {"ok", "open raises", "dump raises"}

InitEntry ==
    /\ fs \in [{CacheFile} -> CacheFileStates]
    /\ astCache = NewCacheEntry
    /\ graphFile = NoGraph
    /\ hashFile = NoHashes
    /\ ret = [op |-> "CacheEntry",
              hist |-> [unsaved |-> {}, invalidated |-> FALSE, lost |-> {}]]
    /\ nChanges = 0

ReadData ==
    \E got \in {data_get(astCache, fs[CacheFile])} :
        /\ astCache' = got.entry
        /\ ret' = [op |-> "data", value |-> got.value, reloaded |-> ~astCache.loaded,
                   hist |-> [ret.hist EXCEPT !.invalidated = FALSE]]
        /\ UNCHANGED <<fs, graphFile, hashFile, nChanges>>

AssignData ==
    \E value \in DataValues :
        /\ astCache' = data_set(astCache, value)
        /\ ret' = [op |-> "data =", value |-> value,
                   hist |-> [unsaved |-> ret.hist.unsaved \cup {value},
                             invalidated |-> FALSE,
                             lost |-> ret.hist.lost \ {value}]]
        /\ UNCHANGED <<fs, graphFile, hashFile, nChanges>>

Save ==
    \E force \in BOOLEAN, io \in WriteOutcomes :
        \E saved \in {save(astCache, fs[CacheFile], force, io)} :
            /\ astCache' = saved.entry
            /\ fs' = [fs EXCEPT ![CacheFile] = saved.file]
            /\ ret' = [op |-> "save", force |-> force, wrote |-> saved.wrote,
                       content |-> IF astCache.data.none THEN {} ELSE astCache.data.dict,
                       hist |-> IF saved.wrote = "ok"
                                THEN [ret.hist EXCEPT !.unsaved = {}]
                                ELSE ret.hist]
            /\ UNCHANGED <<graphFile, hashFile, nChanges>>

Invalidate ==
    /\ astCache' = invalidate(astCache)
    /\ ret' = [op |-> "invalidate",
               hist |-> [unsaved |-> {}, invalidated |-> TRUE,
                         lost |-> ret.hist.lost \cup ret.hist.unsaved]]
    /\ UNCHANGED <<fs, graphFile, hashFile, nChanges>>

\* another process rewrites or removes the file
CacheFileChanges ==
    /\ nChanges < MaxChanges
    /\ \E file \in CacheFileStates :
           /\ file # fs[CacheFile]
           /\ fs' = [fs EXCEPT ![CacheFile] = file]
    /\ nChanges' = nChanges + 1
    /\ UNCHANGED <<astCache, graphFile, hashFile, ret>>

NextEntry ==
    \/ ReadData
    \/ AssignData
    \/ Save
    \/ Invalidate
    \/ CacheFileChanges

SpecEntry == InitEntry /\ [][NextEntry]_vars

\* the step is a call on the entry, not a change of the file from outside
EntryCall == nChanges' = nChanges

\* what a load of the file gives
LoadedFrom(file) == IF file.exists /\ ~IsMalformed(file) THEN file.json ELSE {}

\* C24: whatever came before, an unforced save() writes the file exactly
\* when data was assigned since the last successful save or invalidate; a
\* successful save leaves the entry clean; a write that fails leaves the
\* entry with unsaved data dirty, so that a later save() writes again.
C24_SaveWritesIffAssigned ==
    [][(EntryCall /\ ret'.op = "save") =>
          /\ ~ret'.force => ((ret'.wrote # "no") <=> (ret.hist.unsaved # {}))
          /\ ret'.wrote = "ok" => ~astCache'.dirty
          /\ (ret'.wrote = "failed" /\ ret.hist.unsaved # {}) => astCache'.dirty
      ]_vars

\* an unforced save has failed and the entry is still dirty
C24_Witness ==
    /\ ret.op = "save"
    /\ ~ret.force
    /\ ret.wrote = "failed"
    /\ ret.hist.unsaved = {{"x"}}
    /\ astCache.dirty

\* C25: the read of data that follows invalidate(), no assignment coming
\* between, returns what the file holds at the read, {} when the file is
\* missing or does not load; and an unforced save() never writes a value
\* that was assigned and not saved before an invalidate().
C25_InvalidateReloads ==
    [][EntryCall =>
          /\ (ret'.op = "data" /\ ret.hist.invalidated) =>
                 ret'.value = LoadedFrom(fs[CacheFile])
          /\ (ret'.op = "save" /\ ~ret'.force /\ ret'.wrote # "no") =>
                 ret'.content \notin ret.hist.lost
      ]_vars

\* x was assigned and dropped by invalidate(); the read that follows gives
\* the y of the file
C25_Witness ==
    /\ ret.op = "data"
    /\ ret.reloaded
    /\ ret.hist.lost = {{"x"}}
    /\ ret.value = {"y"}
    /\ fs[CacheFile] = JsonFile({"y"})

-----------------------------------------------------------------------------
(* Specification SpecSingleton: threads calling CacheManager.get_instance() *)
(* and reset_instance(), interleaved at every read and write of the class   *)
(* attributes _instance and _lock.  Here astCache is the class CacheManager *)
(* (its _instance, the holder of its _lock, and as history the managers     *)
(* constructed since the last reset and the number constructed in all),     *)
(* ret is the state of each thread (where it stands in get_instance, the    *)
(* manager it has constructed, what its last call returned, and whether a   *)
(* reset ran during that call), and nChanges counts the resets.             *)

\* number of threads
NumThreads == 2

Threads == 1..NumThreads

\* cls._instance is None, or the manager numbered n; the lock is free, or
\* held by thread t
NoInstance == <<>>

Manager(n) == <<n>>

NoThread == <<>>

HeldBy(t) == <<t>>

IdleThread == [pc |-> "idle", obj |-> NoInstance, result |-> NoInstance, noReset |-> TRUE]

InitSingleton ==
    /\ fs = [p \in {} |-> Absent]
    /\ astCache = [instance |-> NoInstance, lock |-> NoThread, made |-> {}, count |-> 0]
    /\ graphFile = NoGraph
    /\ hashFile = NoHashes
    /\ ret = [t \in Threads |-> IdleThread]
    /\ nChanges = 0

\* get_instance: "if cls._instance is None", read without the lock
CheckInstance(t) ==
    /\ ret[t].pc = "idle"
    /\ ret' = [ret EXCEPT ![t] = [IdleThread EXCEPT
                  !.pc = IF astCache.instance = NoInstance THEN "with cls._lock" ELSE "return"]]
    /\ UNCHANGED <<fs, astCache, graphFile, hashFile, nChanges>>

\* "with cls._lock": the thread waits until the lock is free
AcquireLock(t) ==
    /\ ret[t].pc = "with cls._lock"
    /\ astCache.lock = NoThread
    /\ astCache' = [astCache EXCEPT !.lock = HeldBy(t)]
    /\ ret' = [ret EXCEPT ![t].pc = "if cls._instance is None"]
    /\ UNCHANGED <<fs, graphFile, hashFile, nChanges>>

\* the mutant: the attribute is not read again under the lock
ConstructUnchecked(t) ==
    /\ ret[t].pc = "if cls._instance is None"
    /\ ret' = [ret EXCEPT ![t].pc = "cls()"]
    /\ UNCHANGED <<fs, astCache, graphFile, hashFile, nChanges>>

\* "if cls._instance is None", read again under the lock
CheckUnderLock(t) ==
    /\ ret[t].pc = "if cls._instance is None"
    /\ ret' = [ret EXCEPT ![t].pc =
                  IF astCache.instance = NoInstance THEN "cls()" ELSE "release"]
    /\ UNCHANGED <<fs, astCache, graphFile, hashFile, nChanges>>

\* cls(): __init__ raises RuntimeError when _instance is set, and the "with"
\* releases the lock; else a new manager is constructed
Construct(t) ==
    /\ ret[t].pc = "cls()"
    /\ IF astCache.instance # NoInstance
       THEN /\ astCache' = [astCache EXCEPT !.lock = NoThread]
            /\ ret' = [ret EXCEPT ![t].pc = "idle", ![t].result = NoInstance]
       ELSE /\ astCache' = [astCache EXCEPT !.count = @ + 1,
                                            !.made = @ \cup {Manager(astCache.count + 1)}]
            /\ ret' = [ret EXCEPT ![t].pc = "cls._instance =",
                                  ![t].obj = Manager(astCache.count + 1)]
    /\ UNCHANGED <<fs, graphFile, hashFile, nChanges>>

\* cls._instance = cls()
AssignInstance(t) ==
    /\ ret[t].pc = "cls._instance ="
    /\ astCache' = [astCache EXCEPT !.instance = ret[t].obj]
    /\ ret' = [ret EXCEPT ![t].pc = "release"]
    /\ UNCHANGED <<fs, graphFile, hashFile, nChanges>>

\* the end of the "with" block
ReleaseLock(t) ==
    /\ ret[t].pc = "release"
    /\ astCache' = [astCache EXCEPT !.lock = NoThread]
    /\ ret' = [ret EXCEPT ![t].pc = "return"]
    /\ UNCHANGED <<fs, graphFile, hashFile, nChanges>>

\* "return cls._instance", read without the lock
ReturnInstance(t) ==
    /\ ret[t].pc = "return"
    /\ ret' = [ret EXCEPT ![t].pc = "idle", ![t].result = astCache.instance]
    /\ UNCHANGED <<fs, astCache, graphFile, hashFile, nChanges>>

\* reset_instance, by a thread of its own: the lock is taken, _instance set
\* to None and the lock released, which no other thread sees in between
ResetInstance ==
    /\ nChanges < MaxChanges
    /\ astCache.lock = NoThread
    /\ astCache' = [astCache EXCEPT !.instance = NoInstance, !.made = {}]
    /\ ret' = [t \in Threads |-> [ret[t] EXCEPT !.noReset = FALSE]]
    /\ nChanges' = nChanges + 1
    /\ UNCHANGED <<fs, graphFile, hashFile>>

NextSingleton ==
    \/ \E t \in Threads :
          \/ CheckInstance(t)
          \/ AcquireLock(t)
          \/ CheckUnderLock(t)
          \/ Construct(t)
          \/ AssignInstance(t)
          \/ ReleaseLock(t)
          \/ ReturnInstance(t)
    \/ ResetInstance

SpecSingleton == InitSingleton /\ [][NextSingleton]_vars

\* the call of thread t has returned a manager, no reset having run since
\* the call began
ReturnedWithoutReset(t) ==
    ret[t].pc = "idle" /\ ret[t].result # NoInstance /\ ret[t].noReset

\* C26: however the calls of get_instance() interleave, between two resets
\* one CacheManager at most is constructed, and a call that no reset
\* crosses returns that manager.
C26_OneInstance ==
    /\ Cardinality(astCache.made) <= 1
    /\ \A t \in Threads :
           (ret[t].pc = "idle" /\ ret[t].noReset /\ ret[t].result # NoInstance) =>
               astCache.made = {ret[t].result}
    /\ \A t \in Threads : ret[t].pc = "cls()" => astCache.instance = NoInstance

\* two threads found no manager at the first test: one has constructed it and
\* its call has returned it, the other has found it under the lock
C26_Witness ==
    /\ nChanges = 0
    /\ astCache.instance = Manager(1)
    /\ \E t \in Threads : ReturnedWithoutReset(t) /\ ret[t].obj = ret[t].result
    /\ \E t \in Threads : ret[t].pc = "release" /\ ret[t].obj = NoInstance

-----------------------------------------------------------------------------
(* Specification SpecSaveAll: threads calling save_all(force),              *)
(* update_ast_cache() and the ast_parse_cache property of one CacheManager, *)
(* with and without a remote backend configured.  Here astCache is the      *)
(* manager (the holder of its _entry_lock, whether                          *)
(* get_remote_cache_backend() gives a backend, and its _ast_parse_cache     *)
(* entry), fs holds the file of that entry, and ret is the state of each    *)
(* thread: the statement it stands at, the calls it is in (the innermost    *)
(* last) and the arguments of the call.  The dict of the entry is written   *)
(* as the set of the paths it caches.                                       *)

CachedPaths == {"x", "y"}

InitSaveAll ==
    /\ fs \in [{CacheFile} -> {Absent, JsonFile({"x"})}]
    /\ \E backend \in BOOLEAN :
           astCache = [lock |-> NoThread, backend |-> backend, entry |-> NewCacheEntry]
    /\ graphFile = NoGraph
    /\ hashFile = NoHashes
    /\ ret = [t \in Threads |-> [pc |-> "idle", in |-> <<>>]]
    /\ nChanges = 0

\* save_all(force) is called
CallSaveAll(t) ==
    /\ ret[t].pc = "idle"
    /\ \E force \in BOOLEAN :
           ret' = [ret EXCEPT ![t] = [pc |-> "with self._entry_lock",
                                      in |-> <<"save_all">>, force |-> force]]
    /\ UNCHANGED <<fs, astCache, graphFile, hashFile, nChanges>>

\* update_ast_cache(file_path, data) is called
CallUpdateAstCache(t) ==
    /\ ret[t].pc = "idle"
    /\ \E file_path \in CachedPaths :
           ret' = [ret EXCEPT ![t] = [pc |-> "with self._entry_lock",
                                      in |-> <<"update_ast_cache">>,
                                      file_path |-> file_path]]
    /\ UNCHANGED <<fs, astCache, graphFile, hashFile, nChanges>>

\* the ast_parse_cache property is read
CallAstParseCache(t) ==
    /\ ret[t].pc = "idle"
    /\ ret' = [ret EXCEPT ![t] = [pc |-> "with self._entry_lock",
                                  in |-> <<"ast_parse_cache">>]]
    /\ UNCHANGED <<fs, astCache, graphFile, hashFile, nChanges>>

\* "with self._entry_lock", in any of the three: a threading.Lock, which
\* the thread that holds it cannot take again
AcquireEntryLock(t) ==
    /\ ret[t].pc = "with self._entry_lock"
    /\ astCache.lock = NoThread
    /\ astCache' = [astCache EXCEPT !.lock = HeldBy(t)]
    /\ ret' = [ret EXCEPT ![t].pc = Last(ret[t].in)]
    /\ UNCHANGED <<fs, graphFile, hashFile, nChanges>>

\* save_all: the entries are saved; then _sync_to_remote returns at once when
\* no backend is configured, and else reads self.ast_parse_cache
SaveEntries(t) ==
    /\ ret[t].pc = "save_all"
    /\ \E io \in WriteOutcomes :
           \E saved \in {save(astCache.entry, fs[CacheFile], ret[t].force, io)} :
               /\ astCache' = [astCache EXCEPT !.entry = saved.entry]
               /\ fs' = [fs EXCEPT ![CacheFile] = saved.file]
    /\ ret' = [ret EXCEPT ![t] =
                  IF astCache.backend
                  THEN [@ EXCEPT !.pc = "with self._entry_lock",
                                 !.in = Append(@, "ast_parse_cache")]
                  ELSE [@ EXCEPT !.pc = "release"]]
    /\ UNCHANGED <<graphFile, hashFile, nChanges>>

\* update_ast_cache under the lock, to the end of the "with" block
UpdateAstCache(t) ==
    /\ ret[t].pc = "update_ast_cache"
    /\ \E got \in {data_get(astCache.entry, fs[CacheFile])} :
           astCache' = [astCache EXCEPT
                           !.entry = data_set(got.entry, got.value \cup {ret[t].file_path}),
                           !.lock = NoThread]
    /\ ret' = [ret EXCEPT ![t] = [pc |-> "idle", in |-> <<>>]]
    /\ UNCHANGED <<fs, graphFile, hashFile, nChanges>>

\* the ast_parse_cache property under the lock, to the end of the "with"
\* block; in _sync_to_remote, backend.set() follows and save_all goes on to
\* the end of its own "with" block
ReadAstParseCache(t) ==
    /\ ret[t].pc = "ast_parse_cache"
    /\ \E got \in {data_get(astCache.entry, fs[CacheFile])} :
           astCache' = [astCache EXCEPT !.entry = got.entry, !.lock = NoThread]
    /\ ret' = [ret EXCEPT ![t] =
                  IF Len(ret[t].in) = 1
                  THEN [pc |-> "idle", in |-> <<>>]
                  ELSE [@ EXCEPT !.pc = "release", !.in = Front(@)]]
    /\ UNCHANGED <<fs, graphFile, hashFile, nChanges>>

\* the end of the "with" block of save_all: the call returns
ReleaseEntryLock(t) ==
    /\ ret[t].pc = "release"
    /\ astCache' = [astCache EXCEPT !.lock = NoThread]
    /\ ret' = [ret EXCEPT ![t] = [pc |-> "idle", in |-> <<>>]]
    /\ UNCHANGED <<fs, graphFile, hashFile, nChanges>>

NextSaveAll ==
    \E t \in Threads :
        \/ CallSaveAll(t)
        \/ CallUpdateAstCache(t)
        \/ CallAstParseCache(t)
        \/ AcquireEntryLock(t)
        \/ SaveEntries(t)
        \/ UpdateAstCache(t)
        \/ ReadAstParseCache(t)
        \/ ReleaseEntryLock(t)

SpecSaveAll == InitSaveAll /\ [][NextSaveAll]_vars

\* thread t waits for the entry lock while it holds it: it waits for ever
WaitsForOwnLock(t) ==
    ret[t].pc = "with self._entry_lock" /\ astCache.lock = HeldBy(t)

\* C27: save_all() never blocks on the entry lock it holds itself, with or
\* without a remote backend configured.
C27_SaveAllNeverSelfBlocks == \A t \in Threads : ~WaitsForOwnLock(t)

\* the same with no remote backend configured
SaveAllNeverSelfBlocksWithoutBackend ==
    ~astCache.backend => \A t \in Threads : ~WaitsForOwnLock(t)

-----------------------------------------------------------------------------
(* test_prioritizer and test_outcome_store.  A node id is the record of    *)
(* its test file and its test name; the outcome file is Absent or holds    *)
(* the dict node id -> [status, duration].                                  *)

\* longest recorded duration of a test, in seconds
MaxDuration == 2

NodeIds ==
    { [file |-> <<"tests", "test_a.py">>, name |-> "t1"],
      [file |-> <<"tests", "test_a.py">>, name |-> "t2"],
      [file |-> <<"tests", "test_m.py">>, name |-> "t1"] }

\* the mutant: a test of unknown duration sorts first
sort_key_unknown_first(durations, node_id) ==
    IF node_id \in DOMAIN durations THEN <<1, durations[node_id]>> ELSE <<0, 0>>

\* _sort_key: durations.get(node_id, float("inf")); the pair <<0, d>> is the
\* duration d and <<1, 0>> is infinity
sort_key(durations, node_id) ==
    IF node_id \in DOMAIN durations THEN <<0, durations[node_id]>> ELSE <<1, 0>>

KeyLess(k1, k2) == k1[1] < k2[1] \/ (k1[1] = k2[1] /\ k1[2] < k2[2])

\* list.sort(key=_sort_key): the sort is stable
RECURSIVE InsertByKey(_, _, _)
InsertByKey(list, t, durations) ==
    IF list = <<>> THEN <<t>>
    ELSE IF KeyLess(sort_key(durations, t), sort_key(durations, Head(list)))
    THEN <<t>> \o list
    ELSE <<Head(list)>> \o InsertByKey(Tail(list), t, durations)

RECURSIVE SortByKey(_, _)
SortByKey(list, durations) ==
    IF list = <<>> THEN <<>>
    ELSE InsertByKey(SortByKey(Front(list), durations), Last(list), durations)

\* test_prioritizer.prioritize_tests
prioritize_tests(all_tests, affected_tests, failed_tests, durations) ==
    LET bucket_failed == SelectSeq(all_tests, LAMBDA t : t \in failed_tests)
        bucket_affected ==
            SelectSeq(all_tests, LAMBDA t : t \notin failed_tests /\ t \in affected_tests)
        bucket_rest ==
            SelectSeq(all_tests, LAMBDA t : t \notin failed_tests /\ t \notin affected_tests)
    IN  SortByKey(bucket_failed, durations)
            \o SortByKey(bucket_affected, durations)
            \o SortByKey(bucket_rest, durations)

\* test_outcome_store._load_raw
load_raw(file) ==
    IF ~file.exists \/ IsMalformed(file) THEN EmptyMap ELSE file.json

\* the mutant: the outcomes of the session replace the stored ones
save_outcomes_overwrite(file, outcomes, io) ==
    IF io = "ok" THEN JsonFile(outcomes) ELSE file

\* test_outcome_store.save_outcomes: outcomes is the dict node id -> outcome
\* of the list it is given; when mkdir or open raises, _save_raw logs the
\* error and the file is as it was
save_outcomes(file, outcomes, io) ==
    IF io = "ok" THEN JsonFile(outcomes @@ load_raw(file)) ELSE file

\* test_outcome_store.load_failed_tests
load_failed_tests(file) ==
    { node_id \in DOMAIN load_raw(file) :
        load_raw(file)[node_id].status \in {"failed", "error"} }

\* test_outcome_store.load_test_durations
load_test_durations(file) ==
    [node_id \in DOMAIN load_raw(file) |-> load_raw(file)[node_id].duration]

-----------------------------------------------------------------------------
(* pytest_plugin: the hooks of one session after another.  An item is       *)
(* written as its node id.                                                  *)

\* the mutant: the tests that failed before are not kept
keep_ids_affected_only(affected_node_ids, failed) == affected_node_ids

\* keep_ids = affected_node_ids | failed
keep_ids(affected_node_ids, failed) == affected_node_ids \cup failed

\* pytest_collection_modifyitems from the result of get_affected_tests on:
\* tests is result["tests"], file the outcome file; what it leaves in items
\* and the calls of config.hook.pytest_deselected it makes
modifyitems(mode, items, tests, file) ==
    LET affected_node_ids == { items[i] : i \in { j \in 1..Len(items) : items[j].file \in tests } }
        failed == load_failed_tests(file)
        durations == load_test_durations(file)
        keep == keep_ids(affected_node_ids, failed)
        selected == SelectSeq(items, LAMBDA it : it \in keep)
        deselected == SelectSeq(items, LAMBDA it : it \notin keep)
    IN  CASE mode = "smart" ->
                [items |-> prioritize_tests(selected, affected_node_ids, failed, durations),
                 deselected |-> IF deselected # <<>> THEN << deselected >> ELSE <<>>]
          [] mode = "smart_first" ->
                [items |-> prioritize_tests(items, affected_node_ids, failed, durations),
                 deselected |-> <<>>]
          [] OTHER -> [items |-> items, deselected |-> <<>>]

\* the merge of the working-tree files into result["tests"]
merge_working_tree(tests, working_tree, wt_files) ==
    IF working_tree
    THEN tests \cup { path \in wt_files : path[1] = "tests" /\ Len(path) > 1
                                            /\ EndsWithPy(Last(path)) }
    ELSE tests

-----------------------------------------------------------------------------
(* Specification SpecSessions: pytest sessions one after another, in        *)
(* --smart, --smart-first and plain mode.  Here fs holds the outcome file   *)
(* and ret is the session: the hook that has just returned, the mode, the   *)
(* items collected, result["tests"], the items list, the calls of           *)
(* pytest_deselected, and the _smart_test_outcome attributes of the items.  *)

OUTCOMES_FILE == <<"test_outcomes.json">>

Modes == {"smart", "smart_first", "plain"}

\* pytest collects the tests of a file in the order of the file
CollectionOrder ==
    << [file |-> <<"tests", "test_a.py">>, name |-> "t1"],
       [file |-> <<"tests", "test_a.py">>, name |-> "t2"],
       [file |-> <<"tests", "test_m.py">>, name |-> "t1"] >>

CollectedLists == { SelectSeq(CollectionOrder, LAMBDA it : it \in S) : S \in SUBSET NodeIds }

AffectedTestLists == SUBSET { <<"tests", "test_a.py">>, <<"tests", "test_m.py">> }

WorkingTreeFiles == SUBSET { <<"tests", "test_m.py">>, <<"src", "a.py">> }

\* what the call phase of a test reports
CallReports ==
    { [status |-> "passed", duration |-> 1], [status |-> "passed", duration |-> 2],
      [status |-> "failed", duration |-> 1], [status |-> "skipped", duration |-> 2] }

\* the outcome file at the start: none, or one that names an error
InitSessions ==
    /\ fs \in [{OUTCOMES_FILE} ->
                 {Absent,
                  JsonFile([n \in {CollectionOrder[1]} |-> [status |-> "error", duration |-> 1]])}]
    /\ astCache = NoCache
    /\ graphFile = NoGraph
    /\ hashFile = NoHashes
    /\ ret = [op |-> "none"]
    /\ nChanges = 0

\* pytest_collection_modifyitems of a new session
CollectionModifyitems ==
    /\ ret.op \in {"none", "pytest_sessionfinish"}
    /\ \E mode \in Modes, collected \in CollectedLists, result \in AffectedTestLists,
          working_tree \in BOOLEAN, wt_files \in WorkingTreeFiles :
           \E tests \in {merge_working_tree(result, working_tree, wt_files)} :
               \E hook \in {modifyitems(mode, collected, tests, fs[OUTCOMES_FILE])} :
                   ret' = [op |-> "pytest_collection_modifyitems", mode |-> mode,
                           collected |-> collected, tests |-> tests,
                           items |-> hook.items, deselected |-> hook.deselected]
    /\ UNCHANGED <<fs, astCache, graphFile, hashFile, nChanges>>

\* the tests run: pytest_runtest_makereport stores the report of the call
\* phase on each item that has one (none when the run stops before the item,
\* or when its setup fails or skips)
RuntestMakereport ==
    /\ ret.op = "pytest_collection_modifyitems"
    /\ \E called \in SUBSET Range(ret.items) :
           \E outcome \in [called -> CallReports] :
               ret' = [op |-> "pytest_runtest_makereport", mode |-> ret.mode,
                       outcome |-> outcome]
    /\ UNCHANGED <<fs, astCache, graphFile, hashFile, nChanges>>

\* pytest_sessionfinish
SessionFinish ==
    /\ ret.op = "pytest_runtest_makereport"
    /\ \E io \in {"ok", "open raises"} :
           /\ fs' = [fs EXCEPT ![OUTCOMES_FILE] =
                        IF ret.mode = "plain" \/ DOMAIN ret.outcome = {}
                        THEN @
                        ELSE save_outcomes(@, ret.outcome, io)]
           /\ ret' = [op |-> "pytest_sessionfinish", io |-> io]
    /\ UNCHANGED <<astCache, graphFile, hashFile, nChanges>>

NextSessions ==
    \/ CollectionModifyitems
    \/ RuntestMakereport
    \/ SessionFinish

SpecSessions == InitSessions /\ [][NextSessions]_vars

\* the hook of a --smart session has just returned
SmartHookReturned == ret.op = "pytest_collection_modifyitems" /\ ret.mode = "smart"

\* the collected items the claim names: the test file is among the affected
\* tests, or the node id failed before
ToKeep ==
    { it \in Range(ret.collected) :
        it.file \in ret.tests \/ it \in load_failed_tests(fs[OUTCOMES_FILE]) }

\* C28: after pytest_collection_modifyitems in --smart mode the items list
\* holds exactly the collected items whose test file is in the affected
\* tests list or whose node id failed before, each once; the others are
\* handed to pytest_deselected, which is called only when there is one.
C28_SmartSelection ==
    SmartHookReturned =>
        /\ Range(ret.items) = ToKeep
        /\ Len(ret.items) = Cardinality(ToKeep)
        /\ IF Range(ret.collected) = ToKeep
           THEN ret.deselected = <<>>
           ELSE ret.deselected =
                    << SelectSeq(ret.collected, LAMBDA it : it \notin ToKeep) >>

\* test_a.py::t1 failed before and no test is affected: it alone is kept
C28_Witness ==
    /\ SmartHookReturned
    /\ ret.tests = {}
    /\ ret.collected = CollectionOrder
    /\ ret.items = << CollectionOrder[1] >>
    /\ Len(ret.deselected) = 1

\* the stored outcome of a test, NoOutcome when the file names none
NoOutcome == [status |-> "none"]

StoredOutcome(file, node_id) ==
    IF node_id \in DOMAIN load_raw(file) THEN load_raw(file)[node_id] ELSE NoOutcome

FailedBefore(file, node_id) == StoredOutcome(file, node_id).status \in {"failed", "error"}

\* the session that ends records an outcome of the test: its call phase has
\* reported, the session is a smart one and the outcomes are written
Records(node_id) ==
    /\ ret.mode # "plain"
    /\ node_id \in DOMAIN ret.outcome
    /\ ret'.io = "ok"

-----------------------------------------------------------------------------
(* Specification SpecPrioritize: prioritize_tests applied to every list of  *)
(* distinct node ids, every set of affected and of failed tests and every   *)
(* dict of durations.                                                       *)

AllTestLists ==
    UNION { { l \in [1..Cardinality(S) -> S] : Range(l) = S } : S \in SUBSET NodeIds }

DurationDicts == UNION { [S -> 1..MaxDuration] : S \in SUBSET NodeIds }

InitPrioritize ==
    /\ fs = [p \in {} |-> Absent]
    /\ astCache = NoCache
    /\ graphFile = NoGraph
    /\ hashFile = NoHashes
    /\ \E all_tests \in AllTestLists, affected_tests \in SUBSET NodeIds,
          failed_tests \in SUBSET NodeIds, durations \in DurationDicts :
           ret = [op |-> "none", all_tests |-> all_tests, affected_tests |-> affected_tests,
                  failed_tests |-> failed_tests, durations |-> durations]
    /\ nChanges = 0

CallPrioritizeTests ==
    /\ ret.op = "none"
    /\ ret' = [ret EXCEPT !.op = "prioritize_tests"]
                 @@ [result |-> prioritize_tests(ret.all_tests, ret.affected_tests,
                                                 ret.failed_tests, ret.durations)]
    /\ UNCHANGED <<fs, astCache, graphFile, hashFile, nChanges>>

NextPrioritize == CallPrioritizeTests

SpecPrioritize == InitPrioritize /\ [][NextPrioritize]_vars

\* the group of a test: failed before, else affected, else the rest
GroupOf(t) ==
    IF t \in ret.failed_tests THEN "failed"
    ELSE IF t \in ret.affected_tests THEN "affected" ELSE "rest"

GroupBefore(g1, g2) ==
    \/ g1 = "failed" /\ g2 # "failed"
    \/ g1 = "affected" /\ g2 = "rest"

\* the recorded duration of t is longer than that of u; an unknown duration
\* is longer than every recorded one
LongerThan(t, u) ==
    /\ u \in DOMAIN ret.durations
    /\ t \in DOMAIN ret.durations => ret.durations[t] > ret.durations[u]

Occurrences(list, t) == Cardinality({ i \in 1..Len(list) : list[i] = t })

\* C30: prioritize_tests returns a permutation of all_tests in which the
\* tests that failed before come first, then the affected tests that did
\* not fail, then the rest, each group by non-decreasing recorded duration
\* with the tests of unknown duration last.
C30_PrioritizeOrder ==
    ret.op = "prioritize_tests" =>
        /\ Len(ret.result) = Len(ret.all_tests)
        /\ \A t \in NodeIds : Occurrences(ret.result, t) = Occurrences(ret.all_tests, t)
        /\ \A i, j \in 1..Len(ret.result) :
               i < j =>
                   /\ ~GroupBefore(GroupOf(ret.result[j]), GroupOf(ret.result[i]))
                   /\ GroupOf(ret.result[i]) = GroupOf(ret.result[j]) =>
                          ~LongerThan(ret.result[i], ret.result[j])

\* test_m.py::t1 failed before; of the two affected tests the one of unknown
\* duration, collected first, comes last
C30_Witness ==
    /\ ret.op = "prioritize_tests"
    /\ ret.all_tests = CollectionOrder
    /\ ret.failed_tests = {CollectionOrder[3]}
    /\ ret.affected_tests = NodeIds
    /\ DOMAIN ret.durations = {CollectionOrder[2], CollectionOrder[3]}
    /\ ret.result = <<CollectionOrder[3], CollectionOrder[2], CollectionOrder[1]>>

-----------------------------------------------------------------------------
(* Specification SpecFallback: invocations of the runner interleaved with  *)
(* changes of the .py files, over trees in which the source file may hold  *)
(* bytes that are not UTF-8, so that generate_graph_main() may raise.      *)

FallbackTrees ==
    { t \in [TreePaths -> {UsesA, Undecodable, Absent}] :
        /\ \A p \in TreePaths \ RunnerPaths : t[p] = Absent
        /\ \A p \in TestPaths : t[p] # Undecodable }

InitFallback ==
    /\ fs \in FallbackTrees
    /\ astCache = NoCache
    /\ graphFile = NoGraph
    /\ hashFile = NoHashes
    /\ ret = NoCall
    /\ nChanges = 0

NextFallback ==
    \/ \E o \in RunnerOptions, cf \in ReportedChanges, tp \in BOOLEAN : RunnerMain(o, cf, tp)
    \/ \E p \in RunnerPaths : WriteFile(p, UsesA)
    \/ \E p \in RunnerPaths \cap SrcPaths : WriteFile(p, Undecodable)
    \/ \E p \in RunnerPaths : DeleteFile(p)

SpecFallback == InitFallback /\ [][NextFallback]_vars

\* the runner returned from the orchestration path in mode "affected"
AffectedOrchestration ==
    /\ RunnerReturned
    /\ ret.options.mode = "affected"
    /\ ~ret.fast_path

C32_AffectedFailureFallsBack ==
    [][ (/\ ret'.op = "smart_test_runner.main"
         /\ ret'.options.mode = "affected"
         /\ ~ret'.fast_path
         /\ hashFile.exists
         /\ ret'.affected_raised # "none")
            => (ret'.raised = "none" /\ ret'.tests_to_run = AllTests) ]_vars

\* without --json the exception of get_affected_tests is caught and the run
\* goes on with tests/
AffectedFailureFallsBackUnlessJson ==
    [][ (/\ ret'.op = "smart_test_runner.main"
         /\ ret'.options.mode = "affected"
         /\ ~ret'.fast_path
         /\ hashFile.exists
         /\ ret'.affected_raised # "none"
         /\ ~ret'.options.json_output)
            => (ret'.raised = "none" /\ ret'.tests_to_run = AllTests) ]_vars

-----------------------------------------------------------------------------
(* Specification SpecWatch: the observer thread of watchdog calling        *)
(* on_modified / on_created of one SourceFileWatcher while the main thread *)
(* runs the loop of start_watch_mode, flush_pending_changes over and over. *)
(* A thread switch can happen between any two statements that touch the    *)
(* handler.  Here astCache is the handler (_pending_changes, and whether   *)
(* debounce_seconds have passed since _last_event_time), ret holds where   *)
(* each thread is and the local variable changes of the flush, and fs is   *)
(* the set of accepted changes not yet passed to on_change.                *)

\* _paths.REPO_ROOT, as an absolute path
WATCH_ROOT == <<"repo">>

\* the src_path of the events
EventPaths ==
    { WATCH_ROOT \o <<"src", "a.py">>, WATCH_ROOT \o <<"tests", "test_a.py">>,
      WATCH_ROOT \o <<"src", "README.md">>,
      WATCH_ROOT \o <<"src", "__pycache__", "a.py">>,
      WATCH_ROOT \o <<"src", ".a.py">>,
      <<"elsewhere", "a.py">> }

FileSystemEvents == [src_path : EventPaths, is_directory : BOOLEAN]

\* path.suffix == ".py"
SuffixIsPy(name) == name \in {"a.py", "test_a.py", ".a.py"}

\* path.name.startswith(".")
StartsWithDot(name) == name \in {".a.py"}

\* the early returns of on_modified
Watched(event) ==
    /\ ~event.is_directory
    /\ SuffixIsPy(Last(event.src_path))
    /\ ~("__pycache__" \in Range(event.src_path) \/ StartsWithDot(Last(event.src_path)))

\* path.relative_to(_paths.REPO_ROOT) does not raise ValueError
InsideRoot(path) ==
    /\ Len(path) > Len(WATCH_ROOT)
    /\ SubSeq(path, 1, Len(WATCH_ROOT)) = WATCH_ROOT

relative_to(path, root) == SubSeq(path, Len(root) + 1, Len(path))

\* relative_changes of flush_pending_changes
relative_changes(changes) ==
    { relative_to(path, WATCH_ROOT) : path \in { p \in changes : InsideRoot(p) } }

NewWatcher == [pending_changes |-> {}, debounced |-> TRUE]

InitWatch ==
    /\ astCache = NewWatcher
    /\ ret = [op |-> "start_watch_mode", observer |-> "idle", main |-> "sleep",
              changes |-> {}, on_change |-> {}]
    /\ fs = {}
    /\ graphFile = NoGraph
    /\ hashFile = NoHashes
    /\ nChanges = 0

\* on_modified up to and including self._pending_changes.add(path)
OnEvent(op, event) ==
    /\ ret.observer = "idle"
    /\ IF Watched(event)
       THEN /\ astCache' = [astCache EXCEPT !.pending_changes = @ \cup {event.src_path}]
            /\ ret' = [ret EXCEPT !.op = op, !.observer = "added"]
            /\ fs' = IF InsideRoot(event.src_path) THEN fs \cup {event.src_path} ELSE fs
       ELSE /\ ret' = [ret EXCEPT !.op = op \o ": ignored"]
            /\ UNCHANGED <<astCache, fs>>
    /\ UNCHANGED <<graphFile, hashFile, nChanges>>

OnModified(event) == OnEvent("on_modified", event)

\* on_created calls on_modified
OnCreated(event) == OnEvent("on_created", event)

\* self._last_event_time = time.time()
SetLastEventTime ==
    /\ ret.observer = "added"
    /\ astCache' = [astCache EXCEPT !.debounced = FALSE]
    /\ ret' = [ret EXCEPT !.op = "on_modified: _last_event_time", !.observer = "idle"]
    /\ UNCHANGED <<fs, graphFile, hashFile, nChanges>>

\* debounce_seconds pass without an event
DebounceElapses ==
    /\ ~astCache.debounced
    /\ astCache' = [astCache EXCEPT !.debounced = TRUE]
    /\ ret' = [ret EXCEPT !.op = "time"]
    /\ UNCHANGED <<fs, graphFile, hashFile, nChanges>>

\* "if not self._pending_changes: return"
FlushCheckPending ==
    /\ ret.main = "sleep"
    /\ ret' = [ret EXCEPT !.op = "flush_pending_changes: pending",
                          !.main = IF astCache.pending_changes = {} THEN "sleep"
                                   ELSE "check_time"]
    /\ UNCHANGED <<fs, astCache, graphFile, hashFile, nChanges>>

\* "if time_since_last < self.debounce_seconds: return"
FlushCheckTime ==
    /\ ret.main = "check_time"
    /\ ret' = [ret EXCEPT !.op = "flush_pending_changes: time",
                          !.main = IF astCache.debounced THEN "copy" ELSE "sleep"]
    /\ UNCHANGED <<fs, astCache, graphFile, hashFile, nChanges>>

\* changes = self._pending_changes.copy()
FlushCopy ==
    /\ ret.main = "copy"
    /\ ret' = [ret EXCEPT !.op = "flush_pending_changes: copy", !.main = "clear",
                          !.changes = astCache.pending_changes]
    /\ UNCHANGED <<fs, astCache, graphFile, hashFile, nChanges>>

\* self._pending_changes.clear()
FlushClear ==
    /\ ret.main = "clear"
    /\ astCache' = [astCache EXCEPT !.pending_changes = {}]
    /\ ret' = [ret EXCEPT !.op = "flush_pending_changes: clear", !.main = "on_change"]
    /\ UNCHANGED <<fs, graphFile, hashFile, nChanges>>

\* the relative paths and "if relative_changes: self.on_change(...)"
FlushOnChange ==
    /\ ret.main = "on_change"
    /\ ret' = [ret EXCEPT !.op = "flush_pending_changes: on_change", !.main = "sleep",
                          !.changes = {}, !.on_change = relative_changes(ret.changes)]
    /\ fs' = fs \ ret.changes
    /\ UNCHANGED <<astCache, graphFile, hashFile, nChanges>>

NextWatch ==
    \/ \E event \in FileSystemEvents : OnModified(event)
    \/ \E event \in FileSystemEvents : OnCreated(event)
    \/ SetLastEventTime
    \/ DebounceElapses
    \/ FlushCheckPending
    \/ FlushCheckTime
    \/ FlushCopy
    \/ FlushClear
    \/ FlushOnChange

SpecWatch == InitWatch /\ [][NextWatch]_vars

\* the changes the flush in progress has copied and not yet passed on
InFlight == IF ret.main \in {"clear", "on_change"} THEN ret.changes ELSE {}

\* C33: under any interleaving of the observer thread's on_modified /
\* on_created calls with the main loop's flush_pending_changes, no accepted
\* change (a .py file inside the repository root, not under __pycache__) is
\* dropped: until it is passed to on_change it is in _pending_changes or in
\* the changes of the flush in progress.
C33_NoAcceptedChangeDropped ==
    fs \subseteq (astCache.pending_changes \cup InFlight)

\* an accepted change is lost by no step other than the clear() of a flush
\* whose copy() was taken before the change was added
DroppedOnlyByClearAfterCopy ==
    [][ (C33_NoAcceptedChangeDropped /\ ~C33_NoAcceptedChangeDropped')
            => /\ ret'.op = "flush_pending_changes: clear"
               /\ astCache.pending_changes # ret.changes ]_vars

\* what on_change is called with holds only relative
\* paths of watched .py files
OnChangeGetsWatchedFiles ==
    ret.op = "flush_pending_changes: on_change" =>
        \A p \in ret.on_change :
            /\ WATCH_ROOT \o p \in EventPaths
            /\ Watched([src_path |-> WATCH_ROOT \o p, is_directory |-> FALSE])

-----------------------------------------------------------------------------
(* The snapshot, the staleness test and the runner.                        *)

\* a snapshot is persisted and a tracked file differs from it
ChangedSinceSnapshot(hash_file, tree) ==
    /\ hash_file.exists
    /\ get_changed_files_hash(hash_file, tree) # {}

\* C34: on the orchestration path of the runner, once a tracked file has
\* changed relative to the persisted snapshot, is_graph_stale() is true and
\* the graph is regenerated at every invocation, and this stays so across
\* affected-mode, dry-run and failing runs: only a full run (mode "all",
\* the snapshot being there) whose tests pass rewrites the snapshot.
C34_StaleUntilFullGreenRun ==
    [][ (/\ ret'.op = "smart_test_runner.main"
         /\ ~ret'.fast_path
         /\ ChangedSinceSnapshot(hashFile, fs))
            => /\ is_graph_stale(graphFile, hashFile, fs)
               /\ ret'.regenerated
               /\ ret'.regen_raised = "none" =>
                     \E src_files \in all_files(fs), tst_files \in test_files(fs) :
                         graphFile' = regenerate(generate_main(fs, src_files, astCache),
                                                 fs, tst_files).graph_file
               /\ IF ret'.update_hashes_called
                  THEN /\ ret'.options.mode = "all"
                       /\ ~ret'.options.dry_run
                       /\ ret'.pytest_started /\ ret'.pytest_exit = 0
                       /\ hashFile' = update_hashes(fs)
                  ELSE /\ hashFile' = hashFile
                       /\ ChangedSinceSnapshot(hashFile', fs')
                       /\ is_graph_stale(graphFile', hashFile', fs') ]_vars

\* a second affected-mode run in a row that found the changed file, the
\* snapshot and a graph, regenerated the graph, ran failing tests, and
\* left the graph stale
C34_Witness ==
    /\ AffectedOrchestration
    /\ ret.regenerated
    /\ ret.regen_raised = "none"
    /\ ret.pytest_started
    /\ ret.pytest_exit # 0
    /\ graphFile.exists
    /\ ChangedSinceSnapshot(hashFile, fs)
    /\ is_graph_stale(graphFile, hashFile, fs)

\* the paths added, modified and deleted since the snapshot, told from the
\* files themselves
AddedSince(stored_hashes, tree) ==
    { p \in TreePaths : tree[p].exists /\ p \notin DOMAIN stored_hashes }

ModifiedSince(stored_hashes, tree) ==
    { p \in DOMAIN stored_hashes :
        tree[p].exists /\ stored_hashes[p] # compute_file_hash(tree[p]) }

DeletedSince(stored_hashes, tree) ==
    { p \in DOMAIN stored_hashes : ~tree[p].exists }

\* C35: whenever the graph file exists, for every persisted snapshot and
\* every state of the files, is_graph_stale() returns true if and only if
\* get_changed_files_hash() returns a non-empty list; and when a non-empty
\* snapshot is persisted, get_changed_files_hash() returns exactly the
\* added, modified and deleted paths.
C35_StaleIffChangedFiles ==
    [][ (ret'.op = "is_graph_stale" /\ graphFile.exists /\ hashFile.exists)
            => /\ ret'.result <=> (get_changed_files_hash(hashFile, fs) # {})
               /\ DOMAIN hashFile.files # {} =>
                     get_changed_files_hash(hashFile, fs) =
                         AddedSince(hashFile.files, fs)
                             \cup ModifiedSince(hashFile.files, fs)
                             \cup DeletedSince(hashFile.files, fs) ]_vars

\* the two agree whenever the snapshot names a file or a .py file exists,
\* and the list is exact for a non-empty snapshot
StaleIffChangedFilesUnlessBothEmpty ==
    [][ (/\ ret'.op = "is_graph_stale" /\ graphFile.exists /\ hashFile.exists
         /\ (DOMAIN hashFile.files # {} \/ get_all_py_files(fs) # {}))
            => /\ ret'.result <=> (get_changed_files_hash(hashFile, fs) # {})
               /\ DOMAIN hashFile.files # {} =>
                     get_changed_files_hash(hashFile, fs) =
                         AddedSince(hashFile.files, fs)
                             \cup ModifiedSince(hashFile.files, fs)
                             \cup DeletedSince(hashFile.files, fs) ]_vars

-----------------------------------------------------------------------------
(* get_affected_tests and the union of changed-file sets.                  *)

\* C36: for a fixed graph (and working tree), get_affected_tests
\* distributes over the union of changed-file sets: the affected_modules
\* and the tests for X \cup Y are the unions of those for X and for Y, so
\* a larger changed-file set never loses a module or a test.
C36_AffectedTestsDistribute ==
    ret.op = "get_affected_tests" =>
        \A of \in { [part \in SUBSET Range(ret.changed) |->
                        get_affected_tests(SelectSeq(ret.changed, LAMBDA f : f \in part),
                                           fs, graphFile)] @@ <<>> } :
        \A X \in DOMAIN of, Y \in DOMAIN of :
            /\ X \cup Y = Range(ret.changed) =>
                  /\ Range(ret.result.affected_modules) =
                        Range(of[X].affected_modules) \cup Range(of[Y].affected_modules)
                  /\ Range(ret.result.tests) = Range(of[X].tests) \cup Range(of[Y].tests)
            /\ Range(of[X].affected_modules) \subseteq Range(ret.result.affected_modules)
            /\ Range(of[X].tests) \subseteq Range(ret.result.tests)

\* two changed source files, each of which alone affects a module the other
\* does not, one of them through imported_by, with different tests
C36_Witness ==
    /\ ret.op = "get_affected_tests"
    /\ Len(ret.changed) = 2
    /\ LET of_1 == get_affected_tests(<<ret.changed[1]>>, fs, graphFile)
           of_2 == get_affected_tests(<<ret.changed[2]>>, fs, graphFile)
       IN  /\ ~(Range(of_1.affected_modules) \subseteq Range(of_2.affected_modules))
           /\ ~(Range(of_2.affected_modules) \subseteq Range(of_1.affected_modules))
           /\ Cardinality(Range(of_1.affected_modules)) > 1
           /\ of_1.tests # <<>> /\ of_2.tests # <<>>
           /\ Range(of_1.tests) # Range(of_2.tests)
           /\ Range(ret.result.tests) = Range(of_1.tests) \cup Range(of_2.tests)

-----------------------------------------------------------------------------
(* Specification SpecDeletion: invocations of the runner in a project      *)
(* where src/a.py imports pkg.m and tests/test_a.py is the test of module  *)
(* a, interleaved with deletions and rewrites of src/pkg/m.py and of the   *)
(* test file.                                                              *)

\* the files that are deleted and written back between the runs
DeletionPaths == { <<"src", "pkg", "m.py">>, <<"tests", "test_a.py">> }

DeletionTrees ==
    { t \in [TreePaths -> {EmptyFile, UsesM, Absent}] :
        /\ t[<<"src", "a.py">>] = UsesM
        /\ t[<<"src", "pkg", "__init__.py">>] = Absent
        /\ t[<<"src", "pkg", "m.py">>] \in {EmptyFile, Absent}
        /\ t[<<"tests", "test_a.py">>] \in {EmptyFile, Absent}
        /\ t[<<"tests", "src", "test_h.py">>] = Absent }

\* what get_changed_files reports
ReportedDeletions == { <<>>, << <<"src", "pkg", "m.py">> >> }

InitDeletion ==
    /\ fs \in DeletionTrees
    /\ astCache = NoCache
    /\ graphFile = NoGraph
    /\ hashFile = NoHashes
    /\ ret = NoCall
    /\ nChanges = 0

NextDeletion ==
    \/ \E o \in RunnerOptions, cf \in ReportedDeletions, tp \in BOOLEAN : RunnerMain(o, cf, tp)
    \/ \E p \in DeletionPaths : DeleteFile(p)
    \/ \E p \in DeletionPaths : WriteFile(p, EmptyFile)

SpecDeletion == InitDeletion /\ [][NextDeletion]_vars

\* the source files that are gone and whose module is in the graph
DeletedSources(graph_file, tree) ==
    { p \in SrcPaths : /\ ~Exists(tree, p)
                       /\ graph_file.exists
                       /\ get_module_name(p, SRC_ROOT) \in DOMAIN graph_file.modules }

\* the tests the graph maps to the modules that depend on module M, directly
\* or through others, M left out
TestsOfDependents(graph_file, M) ==
    UNION { Range(Get(graph_file.modules[B], "tests", <<>>))
              : B \in (get_transitive_dependents(graph_file, {M}).affected \ {M})
                         \cap DOMAIN graph_file.modules }

\* pytest, given the paths tests, runs the test file
Covers(tests, test_file) ==
    \E i \in 1..Len(tests) : IsUnder(test_file, tests[i]) \/ test_file = tests[i]

====
